---------------------------- MODULE Spec2Model ----------------------------
(***************************************************************************)
(* A model of the memory and reasoning core of src/main.js: class Memory   *)
(* (three bounded tiers, promotion, eviction, decay, recall) and class     *)
(* ReasoningEngine (facts, template rules, bounded forward chaining and    *)
(* the reason() pipeline).                                                 *)
(*                                                                         *)
(* Representation.                                                         *)
(*  - A JavaScript string is a sequence of one-character strings (the      *)
(*    letters d with stroke and i with tilde, which a module cannot hold,  *)
(*    are written "D/", "d/" and "i~").  A                                 *)
(*    payload is a record [t, s]: t = "str" with the characters in s, or   *)
(*    t = "obj" for a structured (non-string) value, or t = "undef" for    *)
(*    undefined.                                                           *)
(*  - A number in [0,1] (importance, confidence, relevance) is an integer  *)
(*    count of thousandths; a product of two of them is in millionths.     *)
(*  - Date.now() is the variable now, in milliseconds.                     *)
(*  - An id is a pair <<namespace, n>>: <<"id", n>> for generateId(),      *)
(*    <<"consolidated", n>> for `consolidated_${id}`, <<"user", n>> for a  *)
(*    key chosen by the caller of addToLongTerm.                           *)
(*  - A JavaScript Map that is iterated (longTerm, rules) is a sequence in *)
(*    insertion order; the three metadata maps are functions.              *)
(***************************************************************************)
EXTENDS Integers, Sequences, FiniteSets, TLC

--------------------------------------------------------------------------
(* Strings                                                                 *)

\* String.prototype.toLowerCase, one character.
LowerChar(c) ==
    CASE c = "A" -> "a" [] c = "B" -> "b" [] c = "C" -> "c" [] c = "D" -> "d"
      [] c = "E" -> "e" [] c = "F" -> "f" [] c = "G" -> "g" [] c = "H" -> "h"
      [] c = "I" -> "i" [] c = "J" -> "j" [] c = "K" -> "k" [] c = "L" -> "l"
      [] c = "M" -> "m" [] c = "N" -> "n" [] c = "O" -> "o" [] c = "P" -> "p"
      [] c = "Q" -> "q" [] c = "R" -> "r" [] c = "S" -> "s" [] c = "T" -> "t"
      [] c = "U" -> "u" [] c = "V" -> "v" [] c = "W" -> "w" [] c = "X" -> "x"
      [] c = "Y" -> "y" [] c = "Z" -> "z" [] c = "D/" -> "d/" [] c = "Á" -> "á"
      [] OTHER -> c

\* String.prototype.toLowerCase.
ToLowerCase(s) == [i \in 1..Len(s) |-> LowerChar(s[i])]

\* String.prototype.includes: sub occurs in s as a contiguous substring
\* (the empty string occurs in every string).
Includes(s, sub) ==
    \E i \in 0..(Len(s) - Len(sub)) : SubSeq(s, i + 1, i + Len(sub)) = sub

\* String.prototype.split(' '): the pieces between single spaces; the empty
\* string splits into one empty piece, "a " into "a" and "".
RECURSIVE Split(_)
Split(s) ==
    IF \A i \in 1..Len(s) : s[i] # " "
    THEN << s >>
    ELSE LET i == CHOOSE j \in 1..Len(s) :
                      s[j] = " " /\ \A k \in 1..(j - 1) : s[k] # " "
         IN  << SubSeq(s, 1, i - 1) >> \o Split(SubSeq(s, i + 1, Len(s)))

\* Payloads.
Str(s) == [t |-> "str", s |-> s]
Obj == [t |-> "obj", s |-> << >>]
Undefined == [t |-> "undef", s |-> << >>]
\* typeof x === 'string'
IsString(x) == x.t = "str"

\* Math.min, Math.max
Min(a, b) == IF a <= b THEN a ELSE b
Max(a, b) == IF a >= b THEN a ELSE b

--------------------------------------------------------------------------
(* Memory: pure helpers                                                    *)

\* The keyword lists of calculateImportance.
importantKeywords ==
    { <<"q", "u", "a", "n", " ", "t", "r", "ọ", "n", "g">>,
      <<"c", "ầ", "n", " ", "n", "h", "ớ">>,
      <<"i", "m", "p", "o", "r", "t", "a", "n", "t">>,
      <<"r", "e", "m", "e", "m", "b", "e", "r">>,
      <<"c", "r", "i", "t", "i", "c", "a", "l">> }
emotionalWords ==
    { <<"y", "ê", "u">>,
      <<"g", "h", "é", "t">>,
      <<"t", "u", "y", "ệ", "t", " ", "v", "ờ", "i">>,
      <<"t", "ệ", " ", "h", "ạ", "i">>,
      <<"l", "o", "v", "e">>,
      <<"h", "a", "t", "e">> }

\* The keyword lists of analyzeEmotionalContext.
emotionalKeywords ==
    [ happy |->
        { <<"v", "u", "i">>,
          <<"h", "ạ", "n", "h", " ", "p", "h", "ú", "c">>,
          <<"v", "u", "i", " ", "v", "ẻ">>,
          <<"h", "a", "p", "p", "y">>,
          <<"j", "o", "y">>,
          <<"e", "x", "c", "i", "t", "e", "d">> },
      sad |->
        { <<"b", "u", "ồ", "n">>,
          <<"k", "h", "ó", "c">>,
          <<"s", "a", "d">>,
          <<"c", "r", "y">>,
          <<"d", "e", "p", "r", "e", "s", "s", "e", "d">> },
      angry |->
        { <<"t", "ứ", "c", " ", "g", "i", "ậ", "n">>,
          <<"t", "ứ", "c">>,
          <<"a", "n", "g", "r", "y">>,
          <<"m", "a", "d">>,
          <<"f", "u", "r", "i", "o", "u", "s">> },
      surprised |->
        { <<"n", "g", "ạ", "c", " ", "n", "h", "i", "ê", "n">>,
          <<"s", "u", "r", "p", "r", "i", "s", "e", "d">>,
          <<"a", "m", "a", "z", "e", "d">>,
          <<"s", "h", "o", "c", "k", "e", "d">> } ]

\* The length above which calculateImportance adds 0.1.
LongContentLength == 100

\* Memory.calculateImportance, in thousandths: 0.5, +0.3 for an importance
\* keyword, +0.1 for more than 100 characters, +0.2 for an emotional word,
\* at most 1.0; 0.5 for a payload that is not a string.
CalculateImportance(content) ==
    IF ~IsString(content) THEN 500
    ELSE LET lower == ToLowerCase(content.s)
             a == IF \E k \in importantKeywords : Includes(lower, k)
                  THEN 300 ELSE 0
             b == IF Len(content.s) > LongContentLength THEN 100 ELSE 0
             c == IF \E w \in emotionalWords : Includes(lower, w)
                  THEN 200 ELSE 0
         IN  Min(500 + a + b + c, 1000)

\* Memory.calculateRelevance, in thousandths (matches / totalTokens is
\* rounded down to the thousandth).
CalculateRelevance(query, content) ==
    IF ~IsString(query) \/ ~IsString(content) THEN 0
    ELSE LET q == ToLowerCase(query.s)
             c == ToLowerCase(content.s)
             queryTokens == Split(q)
             contentTokens == Split(c)
             matches == Cardinality(
                 { i \in 1..Len(queryTokens) :
                     \E j \in 1..Len(contentTokens) :
                         \/ Includes(contentTokens[j], queryTokens[i])
                         \/ Includes(queryTokens[i], contentTokens[j]) })
             totalTokens == Len(queryTokens)
             similarity == (matches * 1000) \div totalTokens
         IN  IF Includes(c, q) THEN Min(similarity + 500, 1000)
             ELSE similarity

\* Whether Memory.analyzeEmotionalContext throws: content.toLowerCase is
\* not a function when content is not a string.
AnalyzeEmotionalContextThrows(content) == ~IsString(content)

\* Memory.analyzeEmotionalContext for a string: one 0/1 flag per emotion.
AnalyzeEmotionalContext(content) ==
    [ e \in DOMAIN emotionalKeywords |->
        IF \E k \in emotionalKeywords[e] :
               Includes(ToLowerCase(content.s), k)
        THEN 1 ELSE 0 ]

\* Map.prototype.set / delete / has / get-with-default on a function.
MapSet(f, k, v) == [x \in (DOMAIN f) \cup {k} |-> IF x = k THEN v ELSE f[x]]
MapDelete(f, k) == [x \in (DOMAIN f) \ {k} |-> f[x]]
MapHas(f, k) == k \in DOMAIN f
EmptyMap == [x \in {} |-> 0]

\* The long-term Map as a sequence of items in insertion order.
LTKeys(lt) == { lt[i].key : i \in 1..Len(lt) }
LTIndex(lt, key) == CHOOSE i \in 1..Len(lt) : lt[i].key = key
LTGet(lt, key) == lt[LTIndex(lt, key)]
\* Map.set keeps the position of a key that is already there.
LTSet(lt, item) ==
    IF item.key \in LTKeys(lt)
    THEN [lt EXCEPT ![LTIndex(lt, item.key)] = item]
    ELSE Append(lt, item)
RECURSIVE LTDeleteAll(_, _)
LTDeleteAll(lt, keys) ==
    IF lt = << >> THEN << >>
    ELSE IF Head(lt).key \in keys THEN LTDeleteAll(Tail(lt), keys)
         ELSE << Head(lt) >> \o LTDeleteAll(Tail(lt), keys)

--------------------------------------------------------------------------
(* Memory: the long-term store and its metadata maps                       *)
(* A store is the record [longTerm, memoryWeights, accessCount,            *)
(* lastAccess] of the four Maps that the long-term operations update.      *)

\* The sort key that the comparator of manageLongTermCapacity orders by:
\* compare(a, b) = (a.importance - b.importance)
\*               + (a.accessCount - b.accessCount) * 0.1
\*               + (a.lastAccess - b.lastAccess) * 0.001
\* is score(a) - score(b) for this score, in thousandths (lastAccess is in
\* milliseconds, so one millisecond weighs one thousandth).
CompositeScore(item) ==
    item.importance + item.accessCount * 100 + item.lastAccess

\* Array.prototype.sort with that comparator: ascending and stable.
RECURSIVE InsertByScore(_, _)
InsertByScore(sorted, item) ==
    IF sorted = << >> THEN << item >>
    ELSE IF CompositeScore(item) < CompositeScore(Head(sorted))
         THEN << item >> \o sorted
         ELSE << Head(sorted) >> \o InsertByScore(Tail(sorted), item)
RECURSIVE SortByScore(_)
SortByScore(items) ==
    IF items = << >> THEN << >>
    ELSE InsertByScore(SortByScore(SubSeq(items, 1, Len(items) - 1)),
                       items[Len(items)])

\* Delete the keys from the four Maps (the forEach of
\* manageLongTermCapacity, the purge of applyDecay).
RECURSIVE MapDeleteAll(_, _)
MapDeleteAll(f, keys) ==
    IF keys = {} THEN f
    ELSE LET k == CHOOSE x \in keys : TRUE
         IN  MapDeleteAll(MapDelete(f, k), keys \ {k})
StoreDelete(st, keys) ==
    [ longTerm |-> LTDeleteAll(st.longTerm, keys),
      memoryWeights |-> MapDeleteAll(st.memoryWeights, keys),
      accessCount |-> MapDeleteAll(st.accessCount, keys),
      lastAccess |-> MapDeleteAll(st.lastAccess, keys) ]

\* Memory.manageLongTermCapacity: above the capacity, the entries with the
\* lowest composite scores are deleted until the size is the capacity.
ManageLongTermCapacity(st, capacity) ==
    IF Len(st.longTerm) <= capacity THEN st
    ELSE LET itemsByImportance == SortByScore(st.longTerm)
             toRemove == SubSeq(itemsByImportance, 1,
                                Len(st.longTerm) - capacity)
         IN  StoreDelete(st, LTKeys(toRemove))

\* Memory.addToLongTerm on a store.
AddToLongTermStore(st, capacity, key, value, importance, time) ==
    LET memoryItem == [ key |-> key,
                        content |-> value,
                        importance |-> importance,
                        timestamp |-> time,
                        accessCount |-> 0,
                        lastAccess |-> time,
                        consolidated |-> FALSE ]
        set == [ st EXCEPT
                   !.longTerm = LTSet(st.longTerm, memoryItem),
                   !.memoryWeights = MapSet(st.memoryWeights, key, importance) ]
    IN  ManageLongTermCapacity(set, capacity)

\* The key `consolidated_${id}`.
ConsolidatedKey(id) == << "consolidated", id[2] >>

\* A consolidateToLongTerm that forgets to mark the entry consolidated.
ConsolidateWithoutMark(st, capacity, shortTermItem, time) ==
    AddToLongTermStore(st, capacity, ConsolidatedKey(shortTermItem.id),
                       shortTermItem.content, shortTermItem.importance, time)

\* Memory.consolidateToLongTerm on a store.
ConsolidateToLongTerm(st, capacity, shortTermItem, time) ==
    LET key == ConsolidatedKey(shortTermItem.id)
        added == AddToLongTermStore(st, capacity, key, shortTermItem.content,
                                    shortTermItem.importance, time)
    IN  IF key \in LTKeys(added.longTerm)
        THEN [ added EXCEPT
                 !.longTerm = LTSet(added.longTerm,
                     [ LTGet(added.longTerm, key) EXCEPT !.consolidated = TRUE ]) ]
        ELSE added

\* The constructor's defaults.
Default ==
    [ shortTermCapacity |-> 10, longTermCapacity |-> 1000,
      episodicCapacity |-> 500, decayRate |-> 100,
      consolidationThreshold |-> 5 ]

\* `config.x || dflt`: a configured value is a set, empty when the field is
\* absent; an absent value and 0 are falsy.
OrDefault(configured, dflt) ==
    IF configured = {} \/ configured = {0} THEN dflt
    ELSE CHOOSE c \in configured : TRUE

\* Memory.updateAccess on a store.
UpdateAccess(st, id, threshold, time) ==
    LET count == IF MapHas(st.accessCount, id) THEN st.accessCount[id] ELSE 0
        counted == [ st EXCEPT
                       !.accessCount = MapSet(st.accessCount, id, count + 1),
                       !.lastAccess = MapSet(st.lastAccess, id, time) ]
        \* `this.memoryWeights.get(id) || 0.5`
        currentWeight == IF MapHas(st.memoryWeights, id)
                            /\ st.memoryWeights[id] # 0
                         THEN st.memoryWeights[id] ELSE 500
    IN  IF count > threshold
        THEN [ counted EXCEPT
                 !.memoryWeights = MapSet(counted.memoryWeights, id,
                                          Min(currentWeight + 100, 1000)) ]
        ELSE counted

--------------------------------------------------------------------------
(* Memory: search, recall and decay                                        *)

\* A search result: the stored fields that the callers read, with the
\* relevance and the tier.  A short-term or long-term result has a content
\* and no event; an episodic result spreads an episode, which has an event
\* and no content field.
RECURSIVE SearchShortTerm(_, _)
SearchShortTerm(items, query) ==
    IF items = << >> THEN << >>
    ELSE LET item == Head(items)
             relevance == CalculateRelevance(query, item.content)
             rest == SearchShortTerm(Tail(items), query)
         IN  IF relevance > 100
             THEN << [ type |-> "shortterm", id |-> item.id,
                       content |-> item.content, event |-> Undefined,
                       importance |-> item.importance,
                       relevance |-> relevance ] >> \o rest
             ELSE rest

RECURSIVE SearchLongTerm(_, _)
SearchLongTerm(items, query) ==
    IF items = << >> THEN << >>
    ELSE LET item == Head(items)
             relevance == CalculateRelevance(query, item.content)
             rest == SearchLongTerm(Tail(items), query)
         IN  IF relevance > 100
             THEN << [ type |-> "longterm", id |-> item.key,
                       content |-> item.content, event |-> Undefined,
                       importance |-> item.importance,
                       relevance |-> relevance ] >> \o rest
             ELSE rest

RECURSIVE SearchEpisodic(_, _)
SearchEpisodic(episodes, query) ==
    IF episodes = << >> THEN << >>
    ELSE LET episode == Head(episodes)
             relevance == CalculateRelevance(query, episode.event)
             rest == SearchEpisodic(Tail(episodes), query)
         IN  IF relevance > 100
             THEN << [ type |-> "episodic", id |-> episode.id,
                       content |-> Undefined, event |-> episode.event,
                       importance |-> episode.importance,
                       relevance |-> relevance ] >> \o rest
             ELSE rest

\* results.sort((a, b) => b.relevance - a.relevance): descending, stable.
RECURSIVE InsertByRelevance(_, _)
InsertByRelevance(sorted, r) ==
    IF sorted = << >> THEN << r >>
    ELSE IF r.relevance > Head(sorted).relevance
         THEN << r >> \o sorted
         ELSE << Head(sorted) >> \o InsertByRelevance(Tail(sorted), r)
\* A recall that forgets to sort.
Unsorted(rs) == rs

RECURSIVE SortByRelevance(_)
SortByRelevance(rs) ==
    IF rs = << >> THEN << >>
    ELSE InsertByRelevance(SortByRelevance(SubSeq(rs, 1, Len(rs) - 1)),
                           rs[Len(rs)])

\* The list that Memory.recall returns: the searched tiers in the order
\* short-term, long-term, episodic, then sorted.
RecallResults(shortT, longT, epi, query, memoryType) ==
    LET a == IF memoryType \in {"all", "shortterm"}
             THEN SearchShortTerm(shortT, query) ELSE << >>
        b == IF memoryType \in {"all", "longterm"}
             THEN SearchLongTerm(longT, query) ELSE << >>
        c == IF memoryType \in {"all", "episodic"}
             THEN SearchEpisodic(epi, query) ELSE << >>
    IN  SortByRelevance(a \o b \o c)

\* The .map(item => { this.updateAccess(item.id); ... }) of Memory.recall.
RECURSIVE UpdateAccessAll(_, _, _, _)
UpdateAccessAll(st, rs, threshold, time) ==
    IF rs = << >> THEN st
    ELSE UpdateAccessAll(UpdateAccess(st, Head(rs).id, threshold, time),
                         Tail(rs), threshold, time)

\* The decay horizon of applyDecay: 24 hours in milliseconds.
DecayThreshold == 86400000

\* A factor that grows with the decay rate instead of shrinking.
GrowthFactor(rate, timeSinceAccess) == 1000 + rate

\* Math.exp(-decayRate * (timeSinceAccess / decayThreshold)) in thousandths,
\* in fixed point: the ratio and the exponent x are rounded down to the
\* thousandth and exp(-x) is its Taylor polynomial of degree 5 in Horner
\* form, which is within 0.002 of exp(-x) for 0 <= x <= 1.
DecayFactor(rate, timeSinceAccess) ==
    LET ratio == timeSinceAccess \div (DecayThreshold \div 1000)
        x == (rate * ratio) \div 1000
        t5 == 1000 - x \div 5
        t4 == 1000 - (x * t5) \div 4000
        t3 == 1000 - (x * t4) \div 3000
        t2 == 1000 - (x * t3) \div 2000
    IN  1000 - (x * t2) \div 1000

\* The body of the loop of applyDecay for one item: the decayed item.
DecayItem(item, rate, time) ==
    LET timeSinceAccess == time - item.lastAccess
    IN  IF timeSinceAccess > DecayThreshold
        THEN [ item EXCEPT !.importance =
                 (item.importance * DecayFactor(rate, timeSinceAccess))
                     \div 1000 ]
        ELSE item

\* A purge that does not look at the consolidated flag.
DecayPurgedAll(lt, rate, time) ==
    { lt[i].key : i \in { j \in 1..Len(lt) :
        /\ time - lt[j].lastAccess > DecayThreshold
        /\ DecayItem(lt[j], rate, time).importance < 100 } }

\* The keys that the loop of applyDecay deletes.
DecayPurged(lt, rate, time) ==
    { lt[i].key : i \in { j \in 1..Len(lt) :
        /\ time - lt[j].lastAccess > DecayThreshold
        /\ DecayItem(lt[j], rate, time).importance < 100
        /\ ~lt[j].consolidated } }

\* Memory.applyDecay on a store.
ApplyDecayStore(st, rate, time) ==
    LET decayed == [ i \in 1..Len(st.longTerm) |->
                       DecayItem(st.longTerm[i], rate, time) ]
    IN  StoreDelete([ st EXCEPT !.longTerm = decayed ],
                    DecayPurged(st.longTerm, rate, time))

--------------------------------------------------------------------------
(* Memory: save and load                                                   *)
(* A memory is the record of the fields of a Memory object.  A snapshot    *)
(* is a record whose fields are sets, empty when the field is absent, as   *)
(* is its config.  The semantic and procedural Maps, which no operation    *)
(* writes, are left out.                                                   *)

\* Array.from(map.entries()) for the long-term Map: the [key, item] pairs
\* in insertion order.
LongTermEntries(lt) ==
    [ i \in 1..Len(lt) |->
        << lt[i].key, [ f \in (DOMAIN lt[i]) \ { "key" } |-> lt[i][f] ] >> ]
\* new Map(pairs) for the long-term Map: a later pair with the same key
\* replaces the value and keeps the position.
RECURSIVE LongTermOfEntries(_)
LongTermOfEntries(pairs) ==
    IF pairs = << >> THEN << >>
    ELSE LET last == pairs[Len(pairs)]
             item == [ f \in (DOMAIN last[2]) \cup { "key" } |->
                         IF f = "key" THEN last[1] ELSE last[2][f] ]
         IN  LTSet(LongTermOfEntries(SubSeq(pairs, 1, Len(pairs) - 1)), item)
\* Array.from(map.entries()) and new Map(pairs) for a metadata Map, whose
\* order nothing reads: the pairs as a set.
MapEntries(f) == { << k, f[k] >> : k \in DOMAIN f }
MapOfEntries(pairs) ==
    [ k \in { p[1] : p \in pairs } |->
        (CHOOSE p \in pairs : p[1] = k)[2] ]

\* A save that leaves the config out of the snapshot.
SaveWithoutConfig(m, time) ==
    [ shortTerm |-> { m.shortTerm },
      longTerm |-> { LongTermEntries(m.longTerm) },
      episodic |-> { m.episodic },
      memoryWeights |-> { MapEntries(m.memoryWeights) },
      accessCount |-> { MapEntries(m.accessCount) },
      lastAccess |-> { MapEntries(m.lastAccess) },
      config |-> {},
      timestamp |-> { time } ]

\* Memory.save: the snapshot of the memory m.
Save(m, time) ==
    [ shortTerm |-> { m.shortTerm },
      longTerm |-> { LongTermEntries(m.longTerm) },
      episodic |-> { m.episodic },
      memoryWeights |-> { MapEntries(m.memoryWeights) },
      accessCount |-> { MapEntries(m.accessCount) },
      lastAccess |-> { MapEntries(m.lastAccess) },
      config |->
        { [ shortTermCapacity |-> { m.shortTermCapacity },
            longTermCapacity |-> { m.longTermCapacity },
            episodicCapacity |-> { m.episodicCapacity },
            decayRate |-> { m.decayRate },
            consolidationThreshold |-> { m.consolidationThreshold } ] },
      timestamp |-> { time } ]

\* `data.x || dflt` for an array, and the assignment of Object.assign for a
\* property: the value of the field when it is there.
OrElse(field, dflt) == IF field = {} THEN dflt ELSE CHOOSE x \in field : TRUE

\* Memory.load: the memory m after m.load(data).
Load(m, data) ==
    LET config == OrElse(data.config,
                         [ shortTermCapacity |-> {}, longTermCapacity |-> {},
                           episodicCapacity |-> {}, decayRate |-> {},
                           consolidationThreshold |-> {} ])
    IN  [ shortTerm |-> OrElse(data.shortTerm, << >>),
          longTerm |-> LongTermOfEntries(OrElse(data.longTerm, << >>)),
          episodic |-> OrElse(data.episodic, << >>),
          memoryWeights |-> MapOfEntries(OrElse(data.memoryWeights, {})),
          accessCount |-> MapOfEntries(OrElse(data.accessCount, {})),
          lastAccess |-> MapOfEntries(OrElse(data.lastAccess, {})),
          shortTermCapacity |->
              OrElse(config.shortTermCapacity, m.shortTermCapacity),
          longTermCapacity |->
              OrElse(config.longTermCapacity, m.longTermCapacity),
          episodicCapacity |->
              OrElse(config.episodicCapacity, m.episodicCapacity),
          decayRate |-> OrElse(config.decayRate, m.decayRate),
          consolidationThreshold |->
              OrElse(config.consolidationThreshold,
                     m.consolidationThreshold) ]

\* The memory that new Memory() constructs.
NewMemoryObject ==
    [ shortTerm |-> << >>, longTerm |-> << >>, episodic |-> << >>,
      memoryWeights |-> EmptyMap, accessCount |-> EmptyMap,
      lastAccess |-> EmptyMap,
      shortTermCapacity |-> Default.shortTermCapacity,
      longTermCapacity |-> Default.longTermCapacity,
      episodicCapacity |-> Default.episodicCapacity,
      decayRate |-> Default.decayRate,
      consolidationThreshold |-> Default.consolidationThreshold ]

--------------------------------------------------------------------------
(* ReasoningEngine: templates, rules and bounded forward chaining          *)
(* Templates and inputs are made of letters, digits, spaces and {name}     *)
(* placeholders, with no line terminator and no character that is special  *)
(* in a regular expression or in a replacement string, but for an opening  *)
(* parenthesis that a template may have outside its placeholders and that  *)
(* nothing closes.                                                         *)

\* The texts of the engine: String(x) of a value that is not a string, the
\* patterns of patternMatching, the answers of its handlers and of the
\* analogies.
Text ==
    [ object_Object |->
        << "[", "o", "b", "j", "e", "c", "t", " ", "O", "b", "j", "e", "c",
           "t", "]" >>,
      undefined |->
        << "u", "n", "d", "e", "f", "i", "n", "e", "d" >>,
      what_is |->
        << "w", "h", "a", "t", " ", "i", "s", " " >>,
      how_to |->
        << "h", "o", "w", " ", "t", "o", " " >>,
      why |->
        << "w", "h", "y", " " >>,
      when |->
        << "w", "h", "e", "n", " " >>,
      because |->
        << "b", "e", "c", "a", "u", "s", "e", " " >>,
      is |->
        << " ", "i", "s", " " >>,
      need_more_information |->
        << "I", " ", "n", "e", "e", "d", " ", "m", "o", "r", "e", " ", "i",
           "n", "f", "o", "r", "m", "a", "t", "i", "o", "n", " ", "t", "o",
           " ", "e", "x", "p", "l", "a", "i", "n", " " >>,
      To |->
        << "T", "o", " " >>,
      break_it_down |->
        << ",", " ", "y", "o", "u", " ", "m", "i", "g", "h", "t", " ", "n",
           "e", "e", "d", " ", "t", "o", " ", "b", "r", "e", "a", "k", " ",
           "i", "t", " ", "d", "o", "w", "n", " ", "i", "n", "t", "o", " ",
           "s", "m", "a", "l", "l", "e", "r", " ", "s", "t", "e", "p",
           "s" >>,
      The_reason_for |->
        << "T", "h", "e", " ", "r", "e", "a", "s", "o", "n", " ", "f", "o",
           "r", " " >>,
      cause_and_effect |->
        << " ", "m", "i", "g", "h", "t", " ", "b", "e", " ", "r", "e", "l",
           "a", "t", "e", "d", " ", "t", "o", " ", "c", "a", "u", "s", "e",
           " ", "a", "n", "d", " ", "e", "f", "f", "e", "c", "t" >>,
      no_timing_information |->
        << "I", " ", "d", "o", "n", "'", "t", " ", "h", "a", "v", "e", " ",
           "s", "p", "e", "c", "i", "f", "i", "c", " ", "t", "i", "m", "i",
           "n", "g", " ", "i", "n", "f", "o", "r", "m", "a", "t", "i", "o",
           "n", " ", "a", "b", "o", "u", "t", " " >>,
      Based_on_analogy |->
        << "B", "a", "s", "e", "d", " ", "o", "n", " ", "a", "n", "a", "l",
           "o", "g", "y", ":", " " >>,
      Similar_to |->
        << "S", "i", "m", "i", "l", "a", "r", " ", "t", "o", ":", " " >> ]
StringOf(x) ==
    CASE x.t = "str" -> x.s
      [] x.t = "obj" -> Text.object_Object
      [] OTHER -> Text.undefined

\* String.prototype.indexOf, counted from 1; 0 when sub is not in s.
IndexOf(s, sub) ==
    IF ~Includes(s, sub) THEN 0
    ELSE CHOOSE i \in 1..(Len(s) - Len(sub) + 1) :
             /\ SubSeq(s, i, i + Len(sub) - 1) = sub
             /\ \A j \in 1..(i - 1) : SubSeq(s, j, j + Len(sub) - 1) # sub

\* String.prototype.replace with a string pattern: the first occurrence.
ReplaceFirst(s, pat, rep) ==
    LET i == IndexOf(s, pat)
    IN  IF i = 0 THEN s
        ELSE SubSeq(s, 1, i - 1) \o rep \o SubSeq(s, i + Len(pat), Len(s))

\* /\{[^}]+\}/ matches at i: an opening brace, at least one character that
\* is not a closing brace, and the first closing brace after them.
PlaceholderAt(s, i) ==
    /\ s[i] = "{"
    /\ i + 1 <= Len(s)
    /\ s[i + 1] # "}"
    /\ \E j \in (i + 2)..Len(s) : s[j] = "}"

\* A template cut at its placeholders, as pattern.replace(/\{[^}]+\}/g, ..)
\* cuts it: a sequence of parts [var, s], a literal text or the name of a
\* placeholder.
RECURSIVE ParseTemplate(_)
ParseTemplate(s) ==
    IF ~\E i \in 1..Len(s) : PlaceholderAt(s, i)
    THEN IF s = << >> THEN << >> ELSE << [var |-> FALSE, s |-> s] >>
    ELSE LET i == CHOOSE a \in 1..Len(s) :
                      /\ PlaceholderAt(s, a)
                      /\ \A b \in 1..(a - 1) : ~PlaceholderAt(s, b)
             j == CHOOSE a \in (i + 2)..Len(s) :
                      /\ s[a] = "}"
                      /\ \A b \in (i + 2)..(a - 1) : s[b] # "}"
             literal == SubSeq(s, 1, i - 1)
         IN  (IF literal = << >> THEN << >>
              ELSE << [var |-> FALSE, s |-> literal] >>)
             \o << [var |-> TRUE, s |-> SubSeq(s, i + 1, j - 1)] >>
             \o ParseTemplate(SubSeq(s, j + 1, Len(s)))

\* The regular expression of a template, flag i, tried on text at pos: a
\* literal matches itself whatever the case, a placeholder takes one
\* character or more, the fewest that let the rest match (`.+?`).  The
\* result is [ok, groups], groups being the pairs [name, value] in the
\* order of the placeholders.
NoMatch == [ok |-> FALSE, groups |-> << >>]
RECURSIVE MatchParts(_, _, _)
MatchParts(parts, text, pos) ==
    IF parts = << >> THEN [ok |-> TRUE, groups |-> << >>]
    ELSE LET p == Head(parts)
         IN  IF ~p.var
             THEN IF /\ pos + Len(p.s) - 1 <= Len(text)
                     /\ ToLowerCase(SubSeq(text, pos, pos + Len(p.s) - 1))
                            = ToLowerCase(p.s)
                  THEN MatchParts(Tail(parts), text, pos + Len(p.s))
                  ELSE NoMatch
             ELSE LET lens == { n \in 1..(Len(text) - pos + 1) :
                                  MatchParts(Tail(parts), text, pos + n).ok }
                  IN  IF lens = {} THEN NoMatch
                      ELSE LET n == CHOOSE m \in lens :
                                        \A k \in lens : m <= k
                               rest == MatchParts(Tail(parts), text, pos + n)
                           IN  [ ok |-> TRUE,
                                 groups |->
                                   << [ name |-> p.s,
                                        value |-> SubSeq(text, pos,
                                                         pos + n - 1) ] >>
                                   \o rest.groups ]

\* text.match(regex) without the g flag: the match at the leftmost position
\* that has one.
RegexMatch(parts, text) ==
    LET starts == { pos \in 1..(Len(text) + 1) :
                      MatchParts(parts, text, pos).ok }
    IN  IF starts = {} THEN NoMatch
        ELSE MatchParts(parts, text,
                        CHOOSE a \in starts : \A b \in starts : a <= b)

\* ReasoningEngine.matchesRule: "true" when some pattern of the rule, its
\* placeholders turned into (.+), matches somewhere in String(query) (a
\* greedy group matches where a lazy one does), else "false"; "throws"
\* when new RegExp meets, before a pattern that matches, a pattern with an
\* opening parenthesis (SyntaxError: unterminated group).
MatchesRule(query, rule) ==
    LET bad == { k \in 1..Len(rule.pattern) :
                   \E i \in 1..Len(rule.pattern[k]) :
                       rule.pattern[k][i] = "(" }
        hits == { k \in (1..Len(rule.pattern)) \ bad :
                    RegexMatch(ParseTemplate(rule.pattern[k]),
                               StringOf(query)).ok }
    IN  IF \E b \in bad : \A h \in hits : b < h THEN "throws"
        ELSE IF hits # {} THEN "true" ELSE "false"

\* The characters of a capture group name (an identifier).
IdentifierStart ==
    { "a", "b", "c", "d", "e", "f", "g", "h", "i", "j", "k", "l", "m", "n",
      "o", "p", "q", "r", "s", "t", "u", "v", "w", "x", "y", "z", "A", "B",
      "C", "D", "E", "F", "G", "H", "I", "J", "K", "L", "M", "N", "O", "P",
      "Q", "R", "S", "T", "U", "V", "W", "X", "Y", "Z", "_", "$" }
IdentifierPart ==
    IdentifierStart \cup { "0", "1", "2", "3", "4", "5", "6", "7", "8", "9" }
\* new RegExp of the named groups is a SyntaxError: an opening parenthesis
\* in a literal, a name that is not an identifier, or a name used twice.
GroupNamesThrow(parts) ==
    \/ \E k \in 1..Len(parts) :
           ~parts[k].var /\ \E i \in 1..Len(parts[k].s) : parts[k].s[i] = "("
    \/ \E k \in 1..Len(parts) :
           /\ parts[k].var
           /\ \/ parts[k].s[1] \notin IdentifierStart
              \/ \E c \in 2..Len(parts[k].s) :
                     parts[k].s[c] \notin IdentifierPart
    \/ \E k, l \in 1..Len(parts) :
           k # l /\ parts[k].var /\ parts[l].var /\ parts[k].s = parts[l].s

\* What extractVariables returns for a string text, given the parts of
\* its pattern and the match m of their regular expression.
MatchGroups(parts, m) ==
    IF m.ok /\ \E k \in 1..Len(parts) : parts[k].var
    THEN [status |-> "groups", groups |-> m.groups]
    ELSE [status |-> "null", groups |-> << >>]
ExtractFrom(text, parts) ==
    IF ~IsString(text) \/ GroupNamesThrow(parts)
    THEN [status |-> "throws", groups |-> << >>]
    ELSE MatchGroups(parts, RegexMatch(parts, text.s))

\* ReasoningEngine.extractVariables(text, pattern): [status, groups] with
\* status "throws" (text is not a string, or the regular expression is not
\* valid), "null" (no match, or a pattern without placeholder, whose match
\* has no groups) or "groups".
ExtractVariables(text, pattern) == ExtractFrom(text, ParseTemplate(pattern))

\* The loop of applyRule: conclusion.replace(`{${varName}}`, varValue) for
\* each group in turn.
RECURSIVE Substitute(_, _)
Substitute(conclusion, groups) ==
    IF groups = << >> THEN conclusion
    ELSE Substitute(
             ReplaceFirst(conclusion,
                          << "{" >> \o Head(groups).name \o << "}" >>,
                          Head(groups).value),
             Tail(groups))

\* What applyRule returns, given the variables that it has extracted.
Conclude(rule, variables) ==
    IF variables.status = "groups" /\ Len(variables.groups) > 0
    THEN [ ok |-> TRUE,
           content |-> Str(Substitute(rule.conclusion, variables.groups)),
           confidence |-> rule.confidence ]
    ELSE [ ok |-> FALSE, content |-> Undefined, confidence |-> 0 ]

\* ReasoningEngine.applyRule(input, rule): [ok, content, confidence], ok
\* FALSE for null.  An exception of extractVariables is caught and gives
\* null.  When ok, the rule's usageCount goes up by one.
ApplyRule(input, rule) ==
    Conclude(rule, ExtractVariables(input, rule.pattern[1]))

\* A step of a reasoning chain.  content is the field that carries what
\* the step found: content (direct_fact, memory_recall), conclusion
\* (rule_application), result (pattern_matching) or analogy
\* (analogical_reasoning); relevance, rule, depth and pattern are empty
\* where the step has no such field.
Step(type, content, confidence) ==
    [ type |-> type, content |-> content, confidence |-> confidence,
      relevance |-> 0, rule |-> "", depth |-> -1, pattern |-> "" ]

\* reasoningChain.conclusions.includes(content)
ConclusionsInclude(chain, content) ==
    \E k \in 1..Len(chain.conclusions) : chain.conclusions[k] = content

\* A merge that adds the confidences up.
MergeBySum(chain, content, confidence) ==
    IF ConclusionsInclude(chain, content) THEN chain
    ELSE [ chain EXCEPT !.conclusions = Append(@, content),
                        !.confidence = @ + confidence ]

\* A merge that does not look whether the conclusion is there already.
MergeAlways(chain, content, confidence) ==
    [ chain EXCEPT !.conclusions = Append(@, content),
                   !.confidence = Max(@, confidence) ]

\* The merge of applyRules and patternMatching: a conclusion that is not
\* there yet is appended and raises the chain's confidence to the maximum.
MergeConclusion(chain, content, confidence) ==
    IF ConclusionsInclude(chain, content) THEN chain
    ELSE [ chain EXCEPT !.conclusions = Append(@, content),
                        !.confidence = Max(@, confidence) ]

\* An exception of matchesRule, which applyRules does not catch, ends the
\* loop and every call of applyRules around it: it is the last element of
\* the steps, and nothing comes after it.
Thrown == Step("throws", Undefined, 0)
Threw(steps) == steps # << >> /\ steps[Len(steps)] = Thrown
Then(first, rest) == IF Threw(first) THEN first ELSE first \o rest

RECURSIVE RuleStepsFrom(_, _, _, _, _)
RECURSIVE RuleStepsOf(_, _, _, _, _)
RECURSIVE RuleSteps(_, _, _, _)

\* An applyRules that stops one level late.
RuleStepsOneDeeper(rs, query, depth, maxDepth) ==
    IF depth > maxDepth THEN << >>
    ELSE RuleStepsFrom(rs, 1, query, depth, maxDepth)

\* The body of `if (conclusion)` for the rule named name: the step, then
\* the steps of the recursive call on the conclusion.
RuleStepsOf(rs, name, conclusion, depth, maxDepth) ==
    IF ~conclusion.ok THEN << >>
    ELSE << [ Step("rule_application", conclusion.content,
                   conclusion.confidence)
              EXCEPT !.rule = name, !.depth = depth ] >>
         \o RuleSteps(rs, conclusion.content, depth + 1, maxDepth)

\* The for loop of applyRules from the k-th rule of rs on: the steps it
\* pushes, those of the recursive calls in their place.
RuleStepsFrom(rs, k, query, depth, maxDepth) ==
    IF k > Len(rs) THEN << >>
    ELSE Then(CASE MatchesRule(query, rs[k]) = "throws" -> << Thrown >>
                [] MatchesRule(query, rs[k]) = "true" ->
                       RuleStepsOf(rs, rs[k].name, ApplyRule(query, rs[k]),
                                   depth, maxDepth)
                [] OTHER -> << >>,
              RuleStepsFrom(rs, k + 1, query, depth, maxDepth))

\* The steps that applyRules(query, reasoningChain, depth, maxDepth)
\* pushes, in the order it pushes them.  They depend on the query and on
\* the rules rs, not on the chain.
RuleSteps(rs, query, depth, maxDepth) ==
    IF depth >= maxDepth THEN << >>
    ELSE RuleStepsFrom(rs, 1, query, depth, maxDepth)

\* What applyRules does to the chain with each step, as it pushes it:
\* the steps are taken in their order, one after the other.  (The sequence
\* is cut in two, and c is bound to the chain after the first half, so
\* that the evaluation stays shallow.)
RECURSIVE PushRuleSteps(_, _)
PushRuleSteps(chain, steps) ==
    IF steps = << >> THEN chain
    ELSE IF steps = << Thrown >>
    THEN [chain EXCEPT !.steps = Append(@, Thrown)]
    ELSE IF Len(steps) = 1
    THEN MergeConclusion([chain EXCEPT !.steps = Append(@, steps[1])],
                         steps[1].content, steps[1].confidence)
    ELSE CHOOSE r \in
             { PushRuleSteps(c, SubSeq(steps, Len(steps) \div 2 + 1,
                                       Len(steps))) :
                 c \in { PushRuleSteps(chain,
                             SubSeq(steps, 1, Len(steps) \div 2)) } } : TRUE

\* ReasoningEngine.applyRules(query, reasoningChain, depth, maxDepth) over
\* the rules rs; when it throws, the chain that it leaves ends with Thrown.
ApplyRules(rs, query, chain, depth, maxDepth) ==
    PushRuleSteps(chain, RuleSteps(rs, query, depth, maxDepth))

\* rule.usageCount++ of applyRule: once for each step of the chain.
CountUsage(rs, steps) ==
    [ k \in 1..Len(rs) |->
        [ rs[k] EXCEPT !.usageCount =
            @ + Cardinality({ i \in 1..Len(steps) :
                                /\ steps[i].type = "rule_application"
                                /\ steps[i].rule = rs[k].name }) ] ]


\* The patterns and the conclusions of initializeBasicRules.
Template ==
    [ if_A_then_B |->
        << "i", "f", " ", "{", "A", "}", " ", "t", "h", "e", "n", " ", "{",
           "B", "}" >>,
      A |->
        << "{", "A", "}" >>,
      B |->
        << "{", "B", "}" >>,
      not_B |->
        << "n", "o", "t", " ", "{", "B", "}" >>,
      not_A |->
        << "n", "o", "t", " ", "{", "A", "}" >>,
      A_causes_B |->
        << "{", "A", "}", " ", "c", "a", "u", "s", "e", "s", " ", "{", "B",
           "}" >>,
      B_causes_C |->
        << "{", "B", "}", " ", "c", "a", "u", "s", "e", "s", " ", "{", "C",
           "}" >>,
      A_may_cause_C |->
        << "{", "A", "}", " ", "m", "a", "y", " ", "c", "a", "u", "s", "e",
           " ", "{", "C", "}" >>,
      A_is_like_B |->
        << "{", "A", "}", " ", "i", "s", " ", "l", "i", "k", "e", " ", "{",
           "B", "}" >>,
      A_has_property_P |->
        << "{", "A", "}", " ", "h", "a", "s", " ", "p", "r", "o", "p", "e",
           "r", "t", "y", " ", "{", "P", "}" >>,
      B_may_have_property_P |->
        << "{", "B", "}", " ", "m", "a", "y", " ", "h", "a", "v", "e", " ",
           "p", "r", "o", "p", "e", "r", "t", "y", " ", "{", "P", "}" >>,
      A_happens_before_B |->
        << "{", "A", "}", " ", "h", "a", "p", "p", "e", "n", "s", " ", "b",
           "e", "f", "o", "r", "e", " ", "{", "B", "}" >>,
      B_is_happening |->
        << "{", "B", "}", " ", "i", "s", " ", "h", "a", "p", "p", "e", "n",
           "i", "n", "g" >>,
      A_has_happened |->
        << "{", "A", "}", " ", "h", "a", "s", " ", "h", "a", "p", "p", "e",
           "n", "e", "d" >> ]

\* A rule as addRule stores it.
Rule(name, pattern, conclusion, confidence, time) ==
    [ name |-> name, pattern |-> pattern, conclusion |-> conclusion,
      confidence |-> confidence, createdAt |-> time, usageCount |-> 0 ]

\* ReasoningEngine.initializeBasicRules at the given time.
BasicRules(time) ==
    << Rule("modus_ponens", << Template.if_A_then_B, Template.A >>,
            Template.B, 900, time),
       Rule("modus_tollens", << Template.if_A_then_B, Template.not_B >>,
            Template.not_A, 850, time),
       Rule("causal_chain", << Template.A_causes_B, Template.B_causes_C >>,
            Template.A_may_cause_C, 700, time),
       Rule("analogy", << Template.A_is_like_B, Template.A_has_property_P >>,
            Template.B_may_have_property_P, 600, time),
       Rule("temporal_sequence",
            << Template.A_happens_before_B, Template.B_is_happening >>,
            Template.A_has_happened, 800, time) >>

\* this.rules.set(name, ..): a new name goes last, a known name keeps its
\* place.
RulesSet(rs, rule) ==
    IF \E k \in 1..Len(rs) : rs[k].name = rule.name
    THEN [ k \in 1..Len(rs) |->
             IF rs[k].name = rule.name THEN rule ELSE rs[k] ]
    ELSE Append(rs, rule)

\* A fact object that does not record the time.
FactWithoutTimestamp(content, confidence, time) ==
    [ content |-> content, confidence |-> confidence, timestamp |-> 0,
      source |-> "user_input" ]

\* The fact object of addFact; the Set holds its JSON text, so that two
\* facts are the same element when all four fields are equal.
Fact(content, confidence, time) ==
    [ content |-> content, confidence |-> confidence, timestamp |-> time,
      source |-> "user_input" ]

\* findRelevantFacts throws: there is a fact, and the query or the content
\* of a fact has no toLowerCase.
FindRelevantFactsThrows(fs, query) ==
    /\ fs # << >>
    /\ \/ ~IsString(query)
       \/ \E k \in 1..Len(fs) : ~IsString(fs[k].content)

\* sort((a, b) => b.confidence - a.confidence): descending, stable.
RECURSIVE InsertByConfidence(_, _)
InsertByConfidence(sorted, f) ==
    IF sorted = << >> THEN << f >>
    ELSE IF f.confidence > Head(sorted).confidence
         THEN << f >> \o sorted
         ELSE << Head(sorted) >> \o InsertByConfidence(Tail(sorted), f)
RECURSIVE SortByConfidence(_)
SortByConfidence(fs) ==
    IF fs = << >> THEN << >>
    ELSE InsertByConfidence(SortByConfidence(SubSeq(fs, 1, Len(fs) - 1)),
                            fs[Len(fs)])

\* ReasoningEngine.findRelevantFacts(query), when it does not throw: the
\* facts whose content contains the query or is contained in it, whatever
\* the case, the most confident first.
RECURSIVE RelevantFacts(_, _)
RelevantFacts(fs, q) ==
    IF fs = << >> THEN << >>
    ELSE (IF \/ Includes(ToLowerCase(Head(fs).content.s), q)
             \/ Includes(q, ToLowerCase(Head(fs).content.s))
          THEN << Head(fs) >> ELSE << >>) \o RelevantFacts(Tail(fs), q)
FindRelevantFacts(fs, query) ==
    SortByConfidence(RelevantFacts(fs, ToLowerCase(query.s)))



\* The four patterns in the order of the list: /what is (.+)/i,
\* /how to (.+)/i, /why (.+)/i, /when (.+)/i.
PatternPrefix == << Text.what_is, Text.how_to, Text.why, Text.when >>
PatternSource == << "what is (.+)", "how to (.+)", "why (.+)", "when (.+)" >>

\* query.match(/prefix(.+)/i): the first place where the prefix occurs,
\* whatever the case, with at least one character after it; match[1] is
\* the rest of the query.
PrefixMatches(query, prefix) ==
    LET i == IndexOf(ToLowerCase(query), prefix)
    IN  i # 0 /\ i + Len(prefix) <= Len(query)
MatchOne(query, prefix) ==
    SubSeq(query, IndexOf(ToLowerCase(query), prefix) + Len(prefix),
           Len(query))

\* The query that the k-th handler recalls: explainConcept(concept),
\* provideInstructions(task), explainReason(statement),
\* provideTimeInfo(event).
HandlerQuery(k, captured) ==
    CASE k = 1 -> captured
      [] k = 2 -> Text.how_to \o captured
      [] k = 3 -> Text.because \o captured
      [] OTHER -> Text.when \o captured

\* What the k-th handler returns, given what its recall found:
\* [content, confidence].
HandlerResult(k, captured, found) ==
    IF found # << >>
    THEN [ content |-> IF k = 1
                       THEN Str(captured \o Text.is
                                \o StringOf(found[1].content))
                       ELSE found[1].content,
           confidence |-> found[1].relevance ]
    ELSE CASE k = 1 ->
                [ content |-> Str(Text.need_more_information \o captured),
                  confidence |-> 300 ]
           [] k = 2 ->
                [ content |-> Str(Text.To \o captured \o Text.break_it_down),
                  confidence |-> 400 ]
           [] k = 3 ->
                [ content |-> Str(Text.The_reason_for \o captured
                                  \o Text.cause_and_effect),
                  confidence |-> 300 ]
           [] OTHER ->
                [ content |-> Str(Text.no_timing_information \o captured),
                  confidence |-> 200 ]

\* ReasoningEngine.findAnalogy(source, target) for two strings:
\* [ok, content, confidence], ok FALSE for null.  A common token is a
\* token of the source that is a token of the target and has more than
\* three characters.
FindAnalogy(source, target) ==
    LET sourceTokens == Split(ToLowerCase(source))
        targetTokens == Split(ToLowerCase(target))
        commonTokens == { i \in 1..Len(sourceTokens) :
                            /\ \E j \in 1..Len(targetTokens) :
                                   targetTokens[j] = sourceTokens[i]
                            /\ Len(sourceTokens[i]) > 3 }
    IN  IF commonTokens # {}
        THEN [ ok |-> TRUE,
               content |-> Text.Similar_to \o target,
               confidence |-> (Cardinality(commonTokens) * 1000)
                              \div Max(Len(sourceTokens), Len(targetTokens)) ]
        ELSE [ ok |-> FALSE, content |-> << >>, confidence |-> 0 ]

\* reasoningChain.conclusions.some(c => c.includes(text)): "throws" when a
\* conclusion that is not a string comes before the first one that
\* includes the text, else "true" or "false".
SomeConclusionIncludes(chain, text) ==
    LET cs == chain.conclusions
        hits == { k \in 1..Len(cs) :
                    IsString(cs[k]) /\ Includes(cs[k].s, text) }
        bad == { k \in 1..Len(cs) : ~IsString(cs[k]) }
    IN  IF \E b \in bad : \A h \in hits : b < h THEN "throws"
        ELSE IF hits # {} THEN "true" ELSE "false"

\* The body of `if (analogy)`: the chain with the step pushed, then the
\* conclusion and the confidence (0.7 of the analogy's) when no conclusion
\* includes the analogy; [threw, chain].
MergeAnalogy(pushed, analogy, some) ==
    IF some = "throws" THEN [threw |-> TRUE, chain |-> pushed]
    ELSE IF some = "true" THEN [threw |-> FALSE, chain |-> pushed]
    ELSE [ threw |-> FALSE,
           chain |-> [ pushed EXCEPT
                         !.conclusions =
                             Append(@, Str(Text.Based_on_analogy
                                           \o analogy.content)),
                         !.confidence =
                             Max(@, (analogy.confidence * 7) \div 10) ] ]
PushAnalogy(chain, analogy) ==
    IF ~analogy.ok THEN [threw |-> FALSE, chain |-> chain]
    ELSE MergeAnalogy(
             [ chain EXCEPT !.steps =
                 Append(@, Step("analogical_reasoning", Str(analogy.content),
                                analogy.confidence)) ],
             analogy, SomeConclusionIncludes(chain, analogy.content))

\* The loop of analogicalReasoning over the similar memories:
\* [threw, chain].  findAnalogy throws on a memory without a string
\* content (target.toLowerCase).
RECURSIVE AnalogiesFrom(_, _, _)
RECURSIVE AnalogiesAfter(_, _, _)
AnalogiesAfter(similarMemories, query, done) ==
    IF done.threw THEN done
    ELSE AnalogiesFrom(similarMemories, query, done.chain)
AnalogiesFrom(similarMemories, query, chain) ==
    IF similarMemories = << >> THEN [threw |-> FALSE, chain |-> chain]
    ELSE IF ~IsString(Head(similarMemories).content)
    THEN [threw |-> TRUE, chain |-> chain]
    ELSE AnalogiesAfter(
             Tail(similarMemories), query,
             PushAnalogy(chain,
                         FindAnalogy(query, Head(similarMemories).content.s)))

\* .filter(memory => memory.relevance > 0.5).slice(0, 3)
RECURSIVE MoreThanHalf(_)
MoreThanHalf(found) ==
    IF found = << >> THEN << >>
    ELSE (IF Head(found).relevance > 500 THEN << Head(found) >> ELSE << >>)
         \o MoreThanHalf(Tail(found))
FirstThree(s) == SubSeq(s, 1, Min(3, Len(s)))
SimilarMemories(found) == FirstThree(MoreThanHalf(found))

\* The length at which reason() drops the oldest chain of the history.
MaxReasoningHistory == 100


--------------------------------------------------------------------------
(* State                                                                   *)

VARIABLES
    now,                    \* Date.now(), milliseconds
    cfg,                    \* the config object given to the constructor
    shortTermCapacity, longTermCapacity, episodicCapacity,
    decayRate, consolidationThreshold,
    shortTerm,              \* this.shortTerm
    longTerm,               \* this.longTerm, in insertion order
    episodic,               \* this.episodic
    memoryWeights, accessCount, lastAccess,
    nextId,                 \* the number of ids that generateId has made
    rules,                  \* ReasoningEngine.rules, in insertion order
    facts,                  \* ReasoningEngine.facts, in insertion order
    reasoningHistory,       \* ReasoningEngine.reasoningHistory
    call,                   \* the last public call: [op, args]
    err,                    \* the exception it raised, or "none"
    results,                \* what it returned when it was recall or reason
    isLearning,             \* AIAgent.isLearning
    isTraining,             \* AIAgent.isTraining
    conversationHistory,    \* AIAgent.conversationHistory
    isTyping,               \* ChatInterface.isTyping
    document,               \* the ids of the elements that the page has
    pc                      \* the async calls made: where each one stands

cfgVars == << cfg, shortTermCapacity, longTermCapacity, episodicCapacity,
              decayRate, consolidationThreshold >>
storeVars == << longTerm, memoryWeights, accessCount, lastAccess >>
memVars == << shortTerm, episodic, storeVars, nextId >>
reVars == << rules, facts, reasoningHistory >>
coreVars == << now, cfgVars, memVars, reVars, call, err, results >>
agentVars == << isLearning, isTraining, conversationHistory, isTyping,
                document, pc >>
vars == << coreVars, agentVars >>

\* The four long-term Maps as a store, and back.
Store ==
    [ longTerm |-> longTerm, memoryWeights |-> memoryWeights,
      accessCount |-> accessCount, lastAccess |-> lastAccess ]
SetStore(st) ==
    /\ longTerm' = st.longTerm
    /\ memoryWeights' = st.memoryWeights
    /\ accessCount' = st.accessCount
    /\ lastAccess' = st.lastAccess

\* Memory.generateId: an id that no earlier call returned.
GenerateId == << "id", nextId >>

\* new Memory(config)
MemoryConstructor(config) ==
    /\ cfg = config
    /\ shortTermCapacity =
           OrDefault(config.shortTermCapacity, Default.shortTermCapacity)
    /\ longTermCapacity =
           OrDefault(config.longTermCapacity, Default.longTermCapacity)
    /\ episodicCapacity =
           OrDefault(config.episodicCapacity, Default.episodicCapacity)
    /\ shortTerm = << >>
    /\ longTerm = << >>
    /\ episodic = << >>
    /\ memoryWeights = EmptyMap
    /\ accessCount = EmptyMap
    /\ lastAccess = EmptyMap
    /\ decayRate = Default.decayRate
    /\ consolidationThreshold = Default.consolidationThreshold
    /\ nextId = 1

--------------------------------------------------------------------------
(* Memory: the public operations                                           *)

\* A buffer that drops its newest item instead of its oldest.
Pop(s) == SubSeq(s, 1, Len(s) - 1)
\* Array.prototype.shift: what is left of the array.
Shift(s) == Tail(s)

\* Memory.addToShortTerm(item)
AddToShortTerm(item) ==
    LET memoryItem == [ content |-> item,
                        timestamp |-> now,
                        importance |-> CalculateImportance(item),
                        id |-> GenerateId ]
        pushed == Append(shortTerm, memoryItem)
        removed == Head(pushed)
    IN  /\ nextId' = nextId + 1
        /\ IF Len(pushed) > shortTermCapacity
           THEN /\ shortTerm' = Shift(pushed)
                /\ IF removed.importance > 700
                   THEN SetStore(ConsolidateToLongTerm(
                            Store, longTermCapacity, removed, now))
                   ELSE UNCHANGED storeVars
           ELSE /\ shortTerm' = pushed
                /\ UNCHANGED storeVars
        /\ call' = [ op |-> "addToShortTerm", args |-> << item >> ]
        /\ err' = "none"
        /\ results' = << >>
        /\ UNCHANGED << now, cfgVars, episodic, reVars >>

\* Memory.addToLongTerm(key, value, importance)
AddToLongTerm(key, value, importance) ==
    /\ SetStore(AddToLongTermStore(Store, longTermCapacity, key, value,
                                   importance, now))
    /\ call' = [ op |-> "addToLongTerm",
                 args |-> << key, value, importance >> ]
    /\ err' = "none"
    /\ results' = << >>
    /\ UNCHANGED << now, cfgVars, shortTerm, episodic, nextId, reVars >>

\* Memory.addEpisodicMemory(event).  The episode's context (a copy of the
\* last three short-term items and the topic tags) is read by no operation
\* and is left out.  analyzeEmotionalContext throws before anything is
\* stored or an id is made.
AddEpisodicMemory(event) ==
    /\ call' = [ op |-> "addEpisodicMemory", args |-> << event >> ]
    /\ results' = << >>
    /\ IF AnalyzeEmotionalContextThrows(event)
       THEN /\ err' = "TypeError"
            /\ UNCHANGED << episodic, nextId >>
       ELSE LET episode == [ event |-> event,
                             timestamp |-> now,
                             emotions |-> AnalyzeEmotionalContext(event),
                             importance |-> CalculateImportance(event),
                             id |-> GenerateId ]
                pushed == Append(episodic, episode)
            IN  /\ episodic' = IF Len(pushed) > episodicCapacity
                               THEN Tail(pushed) ELSE pushed
                /\ nextId' = nextId + 1
                /\ err' = "none"
    /\ UNCHANGED << now, cfgVars, shortTerm, storeVars, reVars >>

\* Memory.recall(query, memoryType)
Recall(query, memoryType) ==
    LET found == RecallResults(shortTerm, longTerm, episodic, query,
                               memoryType)
    IN  /\ SetStore(UpdateAccessAll(Store, found, consolidationThreshold,
                                    now))
        /\ results' = found
        /\ call' = [ op |-> "recall", args |-> << query, memoryType >> ]
        /\ err' = "none"
        /\ UNCHANGED << now, cfgVars, shortTerm, episodic, nextId, reVars >>

\* Memory.applyDecay()
ApplyDecay ==
    /\ SetStore(ApplyDecayStore(Store, decayRate, now))
    /\ call' = [ op |-> "applyDecay", args |-> << >> ]
    /\ err' = "none"
    /\ results' = << >>
    /\ UNCHANGED << now, cfgVars, shortTerm, episodic, nextId, reVars >>

\* Time passes between two calls.
Tick(dt) ==
    /\ now' = now + dt
    /\ UNCHANGED << cfgVars, memVars, reVars, call, err, results >>

\* The Memory object as a memory record.
This ==
    [ shortTerm |-> shortTerm, longTerm |-> longTerm, episodic |-> episodic,
      memoryWeights |-> memoryWeights, accessCount |-> accessCount,
      lastAccess |-> lastAccess,
      shortTermCapacity |-> shortTermCapacity,
      longTermCapacity |-> longTermCapacity,
      episodicCapacity |-> episodicCapacity,
      decayRate |-> decayRate,
      consolidationThreshold |-> consolidationThreshold ]

\* Memory.save()
SaveCall ==
    /\ results' = Save(This, now)
    /\ call' = [ op |-> "save", args |-> << >> ]
    /\ err' = "none"
    /\ UNCHANGED << now, cfgVars, memVars, reVars >>

\* m.load(data), where m is this Memory (op "load", the object was made
\* with the config cfg) or a new Memory() (op "new.load", no config).
LoadCall(op, m, config, data) ==
    LET loaded == Load(m, data)
    IN  /\ shortTerm' = loaded.shortTerm
        /\ episodic' = loaded.episodic
        /\ SetStore(loaded)
        /\ shortTermCapacity' = loaded.shortTermCapacity
        /\ longTermCapacity' = loaded.longTermCapacity
        /\ episodicCapacity' = loaded.episodicCapacity
        /\ decayRate' = loaded.decayRate
        /\ consolidationThreshold' = loaded.consolidationThreshold
        /\ cfg' = config
        /\ call' = [ op |-> op, args |-> << data >> ]
        /\ err' = "none"
        /\ results' = << >>
        /\ UNCHANGED << now, nextId, reVars >>

--------------------------------------------------------------------------
(* ReasoningEngine: the public operations                                  *)

\* new ReasoningEngine(memory)
ReasoningEngineConstructor ==
    /\ rules = BasicRules(now)
    /\ facts = << >>
    /\ reasoningHistory = << >>

\* ReasoningEngine.addRule(name, rule)
AddRule(name, pattern, conclusion, confidence) ==
    /\ rules' = RulesSet(rules,
                         Rule(name, pattern, conclusion, confidence, now))
    /\ call' = [ op |-> "addRule", args |-> << name >> ]
    /\ err' = "none"
    /\ results' = << >>
    /\ UNCHANGED << now, cfgVars, memVars, facts, reasoningHistory >>

\* ReasoningEngine.addFact(fact, confidence)
AddFact(fact, confidence) ==
    LET factObj == Fact(fact, confidence, now)
    IN  /\ facts' = IF \E k \in 1..Len(facts) : facts[k] = factObj
                    THEN facts ELSE Append(facts, factObj)
        /\ call' = [ op |-> "addFact", args |-> << fact, confidence >> ]
        /\ err' = "none"
        /\ results' = << >>
        /\ UNCHANGED << now, cfgVars, memVars, rules, reasoningHistory >>

\* this.memory.recall(query, memoryType) on the store st: what it returns
\* and the store that it leaves.
Recalled(st, found) ==
    [ found |-> found,
      store |-> UpdateAccessAll(st, found, consolidationThreshold, now) ]
RecallOn(st, query, memoryType) ==
    Recalled(st, RecallResults(shortTerm, st.longTerm, episodic, query,
                               memoryType))

\* The reasoningChain that reason() starts from.
NewChain(query) ==
    [ query |-> query, startTime |-> now, steps |-> << >>,
      conclusions |-> << >>, confidence |-> 0 ]

\* The direct fact lookup of reason().
DirectFactLookup(chain, directFacts) ==
    IF directFacts = << >> THEN chain
    ELSE [ chain EXCEPT
             !.steps = Append(@, Step("direct_fact", directFacts[1].content,
                                      directFacts[1].confidence)),
             !.conclusions = Append(@, directFacts[1].content),
             !.confidence = directFacts[1].confidence ]

\* A memory-based reasoning that concludes whatever the chain holds.
MemoryAlwaysConcludes(chain, memoryResults) ==
    IF memoryResults = << >> THEN chain
    ELSE [ chain EXCEPT
             !.steps =
                 Append(@, [ Step("memory_recall", memoryResults[1].content,
                                  memoryResults[1].importance)
                             EXCEPT !.relevance = memoryResults[1].relevance ]),
             !.conclusions = Append(@, memoryResults[1].content),
             !.confidence = (memoryResults[1].relevance
                             * memoryResults[1].importance) \div 1000 ]

\* A memory-based reasoning that puts its step before the others.
MemoryRecallFirst(chain, memoryResults) ==
    IF memoryResults = << >> THEN chain
    ELSE [ chain EXCEPT
             !.steps =
                 << [ Step("memory_recall", memoryResults[1].content,
                           memoryResults[1].importance)
                      EXCEPT !.relevance = memoryResults[1].relevance ] >>
                 \o @ ]

\* The memory-based reasoning of reason(): the step records the importance
\* of the best memory; the chain takes relevance * importance, and only
\* when it has no conclusion yet.
MemoryBasedReasoning(chain, memoryResults) ==
    IF memoryResults = << >> THEN chain
    ELSE LET bestMemory == memoryResults[1]
             pushed ==
                 [ chain EXCEPT !.steps =
                     Append(@, [ Step("memory_recall", bestMemory.content,
                                      bestMemory.importance)
                                 EXCEPT !.relevance = bestMemory.relevance ]) ]
         IN  IF pushed.conclusions = << >>
             THEN [ pushed EXCEPT
                      !.conclusions = Append(@, bestMemory.content),
                      !.confidence = (bestMemory.relevance
                                      * bestMemory.importance) \div 1000 ]
             ELSE pushed

\* The body of `if (result)` for the k-th pattern: the step, then the
\* merge of the handler's result.
PushResult(chain, k, result) ==
    MergeConclusion(
        [ chain EXCEPT !.steps =
            Append(@, [ Step("pattern_matching", result.content,
                             result.confidence)
                        EXCEPT !.pattern = PatternSource[k] ]) ],
        result.content, result.confidence)

\* The k-th handler on what its recall r found and left.
Handled(chain, k, captured, r) ==
    [ threw |-> FALSE,
      chain |-> PushResult(chain, k, HandlerResult(k, captured, r.found)),
      store |-> r.store ]

\* The k-th pattern, the first that matches.
MatchedPattern(query, chain, st, k) ==
    Handled(chain, k, MatchOne(query.s, PatternPrefix[k]),
            RecallOn(st,
                     Str(HandlerQuery(k, MatchOne(query.s,
                                                  PatternPrefix[k]))),
                     "all"))

\* A patternMatching that runs the handler of the last pattern that
\* matches.
PatternMatchingLast(query, chain, st) ==
    IF ~IsString(query)
    THEN [threw |-> TRUE, chain |-> chain, store |-> st]
    ELSE IF ~\E k \in 1..4 : PrefixMatches(query.s, PatternPrefix[k])
    THEN [threw |-> FALSE, chain |-> chain, store |-> st]
    ELSE MatchedPattern(query, chain, st,
             CHOOSE a \in 1..4 :
                 /\ PrefixMatches(query.s, PatternPrefix[a])
                 /\ \A b \in (a + 1)..4 :
                        ~PrefixMatches(query.s, PatternPrefix[b]))

\* ReasoningEngine.patternMatching(query, reasoningChain) on the store st:
\* [threw, chain, store].  query.match throws when the query is not a
\* string; the handler of the first pattern that matches recalls.
PatternMatching(query, chain, st) ==
    IF ~IsString(query)
    THEN [threw |-> TRUE, chain |-> chain, store |-> st]
    ELSE IF ~\E k \in 1..4 : PrefixMatches(query.s, PatternPrefix[k])
    THEN [threw |-> FALSE, chain |-> chain, store |-> st]
    ELSE MatchedPattern(query, chain, st,
             CHOOSE a \in 1..4 :
                 /\ PrefixMatches(query.s, PatternPrefix[a])
                 /\ \A b \in 1..(a - 1) :
                        ~PrefixMatches(query.s, PatternPrefix[b]))

\* ReasoningEngine.analogicalReasoning(query, reasoningChain) for a string
\* query on the store st: [threw, chain, store].
WithStore(a, store) == [threw |-> a.threw, chain |-> a.chain, store |-> store]
AnalogiesOn(query, chain, r) ==
    WithStore(AnalogiesFrom(SimilarMemories(r.found), query.s, chain),
              r.store)
AnalogicalReasoning(query, chain, st) ==
    AnalogiesOn(query, chain, RecallOn(st, query, "episodic"))

\* The chain as reason() returns it.
Finished(chain) ==
    [ query |-> chain.query, startTime |-> chain.startTime,
      steps |-> chain.steps, conclusions |-> chain.conclusions,
      confidence |-> chain.confidence, endTime |-> now,
      duration |-> now - chain.startTime ]

\* A history that is never cut.
PushUnbounded(history, chain) == Append(history, chain)

\* this.reasoningHistory.push(reasoningChain), and shift() above 100.
PushHistory(history, chain) ==
    IF Len(history) + 1 > MaxReasoningHistory
    THEN Tail(Append(history, chain))
    ELSE Append(history, chain)

\* ReasoningEngine.reason(query, maxDepth).  An exception leaves what the
\* stages before it have written (access metadata, usage counts) and
\* returns nothing; the history grows only when reason() returns.
Reason(query, maxDepth) ==
    \E m \in { RecallOn(Store, query, "all") } :
    \E atRules \in
        { ApplyRules(rules, query,
              MemoryBasedReasoning(
                  DirectFactLookup(NewChain(query),
                                   FindRelevantFacts(facts, query)),
                  m.found),
              0, maxDepth) } :
    \E p \in { PatternMatching(query, atRules, m.store) } :
    \E a \in { AnalogicalReasoning(query, p.chain, p.store) } :
        /\ call' = [ op |-> "reason", args |-> << query, maxDepth >> ]
        /\ IF FindRelevantFactsThrows(facts, query)
           THEN /\ err' = "TypeError"
                /\ results' = << >>
                /\ UNCHANGED << storeVars, rules, reasoningHistory >>
           ELSE IF Threw(atRules.steps)
           THEN /\ err' = "SyntaxError"
                /\ results' = << >>
                /\ SetStore(m.store)
                /\ rules' = CountUsage(rules, atRules.steps)
                /\ UNCHANGED reasoningHistory
           ELSE IF p.threw \/ a.threw
           THEN /\ err' = "TypeError"
                /\ results' = << >>
                /\ SetStore(IF p.threw THEN m.store ELSE a.store)
                /\ rules' = CountUsage(rules, atRules.steps)
                /\ UNCHANGED reasoningHistory
           ELSE /\ err' = "none"
                /\ results' = Finished(a.chain)
                /\ SetStore(a.store)
                /\ rules' = CountUsage(rules, atRules.steps)
                /\ reasoningHistory' =
                       PushHistory(reasoningHistory, Finished(a.chain))
        /\ UNCHANGED << now, cfgVars, shortTerm, episodic, nextId, facts >>

\* ReasoningEngine.applyRules(query, reasoningChain, 0, maxDepth) called
\* with a chain that is new; the chain it has filled is kept in results.
ApplyRulesCall(query, maxDepth) ==
    \E reasoningChain \in
        { ApplyRules(rules, query, NewChain(query), 0, maxDepth) } :
        /\ rules' = CountUsage(rules, reasoningChain.steps)
        /\ results' = IF Threw(reasoningChain.steps) THEN << >>
                      ELSE reasoningChain
        /\ call' = [ op |-> "applyRules", args |-> << query, maxDepth >> ]
        /\ err' = IF Threw(reasoningChain.steps) THEN "SyntaxError"
                  ELSE "none"
        /\ UNCHANGED << now, cfgVars, memVars, facts, reasoningHistory >>

--------------------------------------------------------------------------
(* Inputs shared by the specifications                                     *)

\* The texts that the specifications give to the operations.
Input ==
    [ ai |-> << "a", "i" >>,
      critical_ai |->
        << "c", "r", "i", "t", "i", "c", "a", "l", " ", "a", "i" >>,
      b |-> << "b" >>,
      wet |-> << "w", "e", "t" >>,
      good |-> << "g", "o", "o", "d" >>,
      what_is_ai |-> Text.what_is \o << "a", "i" >>,
      when_how_to_ai |-> Text.when \o Text.how_to \o << "a", "i" >>,
      if_a_then_b |->
        << "i", "f", " ", "a", " ", "t", "h", "e", "n", " ", "b" >>,
      if_rain_then_wet |->
        << "i", "f", " ", "r", "a", "i", "n", " ", "t", "h", "e", "n", " ",
           "w", "e", "t" >> ]

UserKey(n) == << "user", n >>
\* The config object {}.
NoConfig ==
    [ shortTermCapacity |-> {}, longTermCapacity |-> {},
      episodicCapacity |-> {} ]

\* new ReasoningEngine is not part of the memory specifications.
NoReasoning ==
    /\ rules = << >>
    /\ facts = << >>
    /\ reasoningHistory = << >>

\* No AIAgent and no ChatInterface is part of the specification.
NoAgent ==
    /\ isLearning = TRUE
    /\ isTraining = FALSE
    /\ conversationHistory = << >>
    /\ isTyping = FALSE
    /\ document = {}
    /\ pc = << >>

\* A Memory constructed with one of the configurations, nothing called yet.
NewMemory(configs) ==
    /\ now = 0
    /\ \E config \in configs : MemoryConstructor(config)
    /\ call = [ op |-> "new", args |-> << >> ]
    /\ err = "none"
    /\ results = << >>
    /\ NoAgent

\* The guard that keeps the access counters below max.
WithinMaxAccess(found, max) ==
    \A i \in 1..Len(found) :
        MapHas(accessCount, found[i].id) => accessCount[found[i].id] < max

--------------------------------------------------------------------------
(* SpecMem: any sequence of addToShortTerm, addToLongTerm,                 *)
(* addEpisodicMemory and recall, with string and structured payloads.      *)

MaxId == 2          \* generateId is called at most MaxId times
MaxAccess == 1      \* recall raises no access counter above MaxAccess

MemInit ==
    /\ NewMemory({ [ shortTermCapacity |-> {1}, longTermCapacity |-> {1},
                     episodicCapacity |-> {1} ],
                   [ shortTermCapacity |-> {1}, longTermCapacity |-> {2},
                     episodicCapacity |-> {0} ] })
    /\ NoReasoning

MemNext ==
    \/ \E item \in { Str(Input.ai), Str(Input.critical_ai) } :
           nextId <= MaxId /\ AddToShortTerm(item)
           /\ UNCHANGED agentVars
    \/ \E key \in { UserKey(1), UserKey(2) },
          value \in { Str(Input.critical_ai), Obj }, imp \in { 100, 900 } :
           AddToLongTerm(key, value, imp)
           /\ UNCHANGED agentVars
    \/ \E event \in { Str(Input.ai), Obj } :
           nextId <= MaxId /\ AddEpisodicMemory(event)
           /\ UNCHANGED agentVars
    \/ \E query \in { Str(Input.critical_ai), Str(<< >>), Obj },
          memoryType \in { "all", "shortterm", "longterm", "episodic" } :
           /\ WithinMaxAccess(RecallResults(shortTerm, longTerm, episodic,
                                            query, memoryType), MaxAccess)
           /\ Recall(query, memoryType)
           /\ UNCHANGED agentVars

SpecMem == MemInit /\ [][MemNext]_vars

--------------------------------------------------------------------------
(* SpecPromote: short-term overflow and promotion into a long-term store   *)
(* that is empty, partly filled or full, while time passes.                *)

MaxTicks == 2       \* at most MaxTicks steps of TickMs milliseconds
TickMs == 500

PromoteInit ==
    /\ NewMemory({ [ shortTermCapacity |-> {1}, longTermCapacity |-> {c},
                     episodicCapacity |-> {} ] : c \in { 1, 2 } })
    /\ NoReasoning

PromoteNext ==
    \/ \E item \in { Str(Input.ai), Str(Input.critical_ai) } :
           nextId <= MaxId + 1 /\ AddToShortTerm(item)
           /\ UNCHANGED agentVars
    \/ \E key \in { UserKey(1), UserKey(2) }, imp \in { 100, 900 } :
           AddToLongTerm(key, Str(Input.ai), imp)
           /\ UNCHANGED agentVars
    \/ now < MaxTicks * TickMs /\ Tick(TickMs)
       /\ UNCHANGED agentVars

SpecPromote == PromoteInit /\ [][PromoteNext]_vars

--------------------------------------------------------------------------
(* SpecDecay: one long-term entry that is added, recalled and decayed      *)
(* while days pass.                                                        *)

MaxRecalls == 7     \* recall raises no access counter above MaxRecalls
MaxDays == 2        \* at most MaxDays steps of a day and a millisecond

DecayInit == NewMemory({ NoConfig }) /\ NoReasoning

DecayNext ==
    \/ \E imp \in { 150, 500 } : AddToLongTerm(UserKey(1), Str(Input.ai), imp)
       /\ UNCHANGED agentVars
    \/ /\ WithinMaxAccess(RecallResults(shortTerm, longTerm, episodic,
                                        Str(Input.ai), "longterm"), MaxRecalls)
       /\ Recall(Str(Input.ai), "longterm")
       /\ UNCHANGED agentVars
    \/ ApplyDecay
       /\ UNCHANGED agentVars
    \/ now < MaxDays * (DecayThreshold + 1) /\ Tick(DecayThreshold + 1)
       /\ UNCHANGED agentVars

SpecDecay == DecayInit /\ [][DecayNext]_vars

--------------------------------------------------------------------------
(* SpecEvict: scenario 2 of the specification.  Long-term capacity 3;      *)
(* D (0.9), E (0.1), F (0.5) and G (0.8) are added in that order, nothing  *)
(* is recalled, and any time may pass between two additions.               *)

MaxEvictTicks == 6  \* at most MaxEvictTicks steps of TickMs milliseconds

\* The scenario: key, content and importance of the additions, in order.
EvictScenario ==
    << [ key |-> UserKey(1), value |-> Str(<< "d" >>), importance |-> 900 ],
       [ key |-> UserKey(2), value |-> Str(<< "e" >>), importance |-> 100 ],
       [ key |-> UserKey(3), value |-> Str(<< "f" >>), importance |-> 500 ],
       [ key |-> UserKey(4), value |-> Str(<< "g" >>), importance |-> 800 ] >>
\* The number of additions made so far.
EvictDone == IF call.op = "new" THEN 0 ELSE call.args[1][2]

EvictInit ==
    /\ NewMemory({ [ NoConfig EXCEPT !.longTermCapacity = {3} ] })
    /\ NoReasoning

EvictNext ==
    \/ /\ EvictDone < 4
       /\ AddToLongTerm(EvictScenario[EvictDone + 1].key,
                        EvictScenario[EvictDone + 1].value,
                        EvictScenario[EvictDone + 1].importance)
       /\ UNCHANGED agentVars
    \/ now < MaxEvictTicks * TickMs /\ Tick(TickMs)
       /\ UNCHANGED agentVars

SpecEvict == EvictInit /\ [][EvictNext]_vars

--------------------------------------------------------------------------
(* SpecPurge: a consolidated entry (promoted from the short-term buffer)   *)
(* and a plain entry decay side by side; the plain entry is added again   *)
(* once it is purged, so that old and new entries meet.                    *)

MaxPurgeTicks == 2  \* at most MaxPurgeTicks steps of PurgeTickMs milliseconds
\* Five days and a millisecond.
PurgeTickMs == 5 * DecayThreshold + 1

PurgeInit ==
    /\ NewMemory({ [ shortTermCapacity |-> {1}, longTermCapacity |-> {},
                     episodicCapacity |-> {} ] })
    /\ NoReasoning

PurgeNext ==
    \/ nextId <= MaxId /\ AddToShortTerm(Str(Input.critical_ai))
       /\ UNCHANGED agentVars
    \/ \E imp \in { 150, 500 } :
           /\ UserKey(1) \notin LTKeys(longTerm)
           /\ AddToLongTerm(UserKey(1), Str(Input.ai), imp)
           /\ UNCHANGED agentVars
    \/ ApplyDecay
       /\ UNCHANGED agentVars
    \/ now < MaxPurgeTicks * PurgeTickMs /\ Tick(PurgeTickMs)
       /\ UNCHANGED agentVars

SpecPurge == PurgeInit /\ [][PurgeNext]_vars

--------------------------------------------------------------------------
(* SpecFifo: addToShortTerm only, with a buffer of two or three items and  *)
(* payloads of importance 0.5 (a plain string, a structured value) and    *)
(* 0.8.                                                                    *)

MaxFifoAdds == 5    \* addToShortTerm is called at most MaxFifoAdds times

FifoInit ==
    /\ NewMemory({ [ shortTermCapacity |-> {c}, longTermCapacity |-> {},
                     episodicCapacity |-> {} ] : c \in { 2, 3 } })
    /\ NoReasoning

FifoNext ==
    \E item \in { Str(Input.ai), Str(Input.critical_ai), Obj } :
        nextId <= MaxFifoAdds /\ AddToShortTerm(item)
        /\ UNCHANGED agentVars

SpecFifo == FifoInit /\ [][FifoNext]_vars

--------------------------------------------------------------------------
(* SpecLoad: a memory with small capacities is filled, recalled and saved; *)
(* the snapshot just saved is loaded, whole or in part, into the same      *)
(* memory or into a new one.                                               *)

\* The snapshot without the fields in missing.
Partial(data, missing) ==
    [ f \in DOMAIN data |-> IF f \in missing THEN {} ELSE data[f] ]
\* The sets of fields that a partial snapshot leaves out.
MissingFields ==
    { {}, { "config" }, { "shortTerm", "episodic" },
      { "longTerm", "memoryWeights", "accessCount", "lastAccess" },
      { "shortTerm", "longTerm", "episodic", "memoryWeights", "accessCount",
        "lastAccess", "config", "timestamp" } }
\* A snapshot that has nothing but a config with a decay rate of 0.2.
DecayRateOnly ==
    [ Partial(Save(NewMemoryObject, 0), DOMAIN Save(NewMemoryObject, 0))
        EXCEPT !.config =
          { [ shortTermCapacity |-> {}, longTermCapacity |-> {},
              episodicCapacity |-> {}, decayRate |-> { 200 },
              consolidationThreshold |-> {} ] } ]
\* A snapshot that has nothing but a short-term list of two items, as a
\* memory with a larger buffer saves it.
TwoItemsOnly ==
    [ Partial(Save(NewMemoryObject, 0), DOMAIN Save(NewMemoryObject, 0))
        EXCEPT !.shortTerm =
          { << [ content |-> Str(Input.ai), timestamp |-> 0,
                 importance |-> 500, id |-> << "saved", 1 >> ],
               [ content |-> Str(Input.b), timestamp |-> 0,
                 importance |-> 500, id |-> << "saved", 2 >> ] >> } ]
LoadInit ==
    /\ NewMemory({ [ shortTermCapacity |-> {1}, longTermCapacity |-> {2},
                     episodicCapacity |-> {1} ] })
    /\ NoReasoning

LoadNext ==
    \/ \E item \in { Str(Input.ai), Str(Input.critical_ai) } :
           nextId <= MaxId /\ AddToShortTerm(item)
           /\ UNCHANGED agentVars
    \/ AddToLongTerm(UserKey(1), Str(Input.ai), 500)
       /\ UNCHANGED agentVars
    \/ nextId <= MaxId /\ AddEpisodicMemory(Str(Input.ai))
       /\ UNCHANGED agentVars
    \/ /\ WithinMaxAccess(RecallResults(shortTerm, longTerm, episodic,
                                        Str(Input.ai), "all"), MaxAccess)
       /\ Recall(Str(Input.ai), "all")
       /\ UNCHANGED agentVars
    \/ SaveCall
       /\ UNCHANGED agentVars
    \/ \E missing \in MissingFields :
           /\ call.op = "save"
           /\ LoadCall("load", This, cfg, Partial(results, missing))
           /\ UNCHANGED agentVars
    \/ LoadCall("load", This, cfg, DecayRateOnly)
       /\ UNCHANGED agentVars
    \/ LoadCall("load", This, cfg, TwoItemsOnly)
       /\ UNCHANGED agentVars
    \/ /\ call.op = "save"
       /\ LoadCall("new.load", NewMemoryObject, NoConfig, results)
       /\ UNCHANGED agentVars

SpecLoad == LoadInit /\ [][LoadNext]_vars

--------------------------------------------------------------------------
(* SpecReason: a fact, rules and memories are added to a new engine, then  *)
(* reason() or applyRules() is called, with a string or a structured       *)
(* query.                                                                  *)

MaxDepth == 3       \* maxDepth is at most MaxDepth
MaxFacts == 1       \* at most MaxFacts facts are added

ReasonQueries ==
    { Str(Input.what_is_ai), Str(Input.when_how_to_ai),
      Str(Input.if_a_then_b), Str(Input.if_rain_then_wet), Str(Input.ai),
      Str(Input.critical_ai), Obj }
\* Two rules whose conclusion matches their own pattern and a rule whose
\* pattern is no regular expression, in the order in which they are added.
UserRules ==
    << [ name |-> "echo", pattern |-> << Template.A >>,
         conclusion |-> Template.A,
         confidence |-> 600 ],
       [ name |-> "negate", pattern |-> << Template.B >>,
         conclusion |-> Template.not_B,
         confidence |-> 950 ],
       [ name |-> "malformed", pattern |-> << << "(" >> \o Template.A >>,
         conclusion |-> Template.A,
         confidence |-> 500 ] >>
\* The engine has not reasoned yet.
Preparing == call.op \notin { "reason", "applyRules" }

ReasonInit == NewMemory({ NoConfig }) /\ ReasoningEngineConstructor

ReasonNext ==
    \/ \E f \in { << Str(Input.ai), 1000 >>, << Str(Input.b), 500 >> } :
           Preparing /\ Len(facts) < MaxFacts /\ AddFact(f[1], f[2])
           /\ UNCHANGED agentVars
    \/ \E n \in 1..Len(UserRules) :
           /\ Preparing
           /\ Len(rules) = Len(BasicRules(0)) + n - 1
           /\ AddRule(UserRules[n].name, UserRules[n].pattern,
                      UserRules[n].conclusion, UserRules[n].confidence)
           /\ UNCHANGED agentVars
    \/ /\ Preparing
       /\ longTerm = << >>
       /\ AddToLongTerm(UserKey(1), Str(Input.critical_ai), 500)
       /\ UNCHANGED agentVars
    \/ /\ Preparing
       /\ nextId <= 1
       /\ AddEpisodicMemory(Str(Input.critical_ai))
       /\ UNCHANGED agentVars
    \/ \E query \in ReasonQueries, maxDepth \in 0..MaxDepth :
           Preparing /\ Reason(query, maxDepth)
           /\ UNCHANGED agentVars
    \/ \E query \in ReasonQueries, maxDepth \in 0..MaxDepth :
           Preparing /\ ApplyRulesCall(query, maxDepth)
           /\ UNCHANGED agentVars

SpecReason == ReasonInit /\ [][ReasonNext]_vars

--------------------------------------------------------------------------
(* SpecFacts: facts with two contents and a structured content, at two     *)
(* confidences, are added to a new engine while time passes.               *)

MaxFactsKept == 3   \* addFact is called while fewer facts are kept

FactsInit == NewMemory({ NoConfig }) /\ ReasoningEngineConstructor

FactsNext ==
    \/ \E fact \in { Str(Input.ai), Str(Input.b), Obj },
          confidence \in { 500, 1000 } :
           Len(facts) < MaxFactsKept /\ AddFact(fact, confidence)
           /\ UNCHANGED agentVars
    \/ now < MaxTicks * TickMs /\ Tick(TickMs)
       /\ UNCHANGED agentVars

SpecFacts == FactsInit /\ [][FactsNext]_vars

--------------------------------------------------------------------------
(* SpecHistory: reason() is called more than a hundred times on a new      *)
(* engine, each call a millisecond after the last one that returned, with  *)
(* a query that returns a chain or a structured query that raises.         *)

MaxHistoryCalls == 103  \* reason() returns at most MaxHistoryCalls + 1 times

\* The time at which reason() last returned is now.
JustReasoned ==
    /\ reasoningHistory # << >>
    /\ reasoningHistory[Len(reasoningHistory)].startTime = now

HistoryInit == NewMemory({ NoConfig }) /\ ReasoningEngineConstructor

HistoryNext ==
    \/ /\ reasoningHistory = << >>
       /\ facts = << >>
       /\ AddFact(Str(Input.ai), 1000)
       /\ UNCHANGED agentVars
    \/ \E query \in { Str(Input.ai), Obj } :
           ~JustReasoned /\ Reason(query, MaxDepth)
           /\ UNCHANGED agentVars
    \/ JustReasoned /\ now < MaxHistoryCalls /\ Tick(1)
       /\ UNCHANGED agentVars

SpecHistory == HistoryInit /\ [][HistoryNext]_vars

--------------------------------------------------------------------------
(* AIAgent and ChatInterface: the tables and the constructors              *)

\* The sentences of loadInitialKnowledge.
basicKnowledge ==
    << << "T", "ô", "i", " ", "l", "à", " ", "m", "ộ", "t", " ", "A", "I",
          " ", "a", "g", "e", "n", "t", " ", "t", "h", "ô", "n", "g", " ",
          "m", "i", "n", "h", " ", "d/", "ư", "ợ", "c", " ", "t", "ạ", "o",
          " ", "r", "a", " ", "d/", "ể", " ", "g", "i", "ú", "p", " ", "d/",
          "ỡ", " ", "c", "o", "n", " ", "n", "g", "ư", "ờ", "i", "." >>,
       << "T", "ô", "i", " ", "c", "ó", " ", "t", "h", "ể", " ", "h", "ọ",
          "c", " ", "h", "ỏ", "i", " ", "t", "ừ", " ", "c", "u", "ộ", "c",
          " ", "t", "r", "ò", " ", "c", "h", "u", "y", "ệ", "n", " ", "v",
          "à", " ", "c", "ả", "i", " ", "t", "h", "i", "ệ", "n", " ", "t",
          "h", "e", "o", " ", "t", "h", "ờ", "i", " ", "g", "i", "a", "n",
          "." >>,
       << "V", "i", "ệ", "t", " ", "N", "a", "m", " ", "l", "à", " ", "m",
          "ộ", "t", " ", "d/", "ấ", "t", " ", "n", "ư", "ớ", "c", " ", "x",
          "i", "n", "h", " ", "d/", "ẹ", "p", " ", "ở", " ", "D/", "ô", "n",
          "g", " ", "N", "a", "m", " ", "Á", "." >>,
       << "A", "I", " ", "l", "à", " ", "t", "r", "í", " ", "t", "u", "ệ",
          " ", "n", "h", "â", "n", " ", "t", "ạ", "o", ",", " ", "g", "i",
          "ú", "p", " ", "m", "á", "y", " ", "t", "í", "n", "h", " ", "m",
          "ô", " ", "p", "h", "ỏ", "n", "g", " ", "t", "r", "í", " ", "t",
          "h", "ô", "n", "g", " ", "m", "i", "n", "h", " ", "c", "o", "n",
          " ", "n", "g", "ư", "ờ", "i", "." >>,
       << "J", "a", "v", "a", "S", "c", "r", "i", "p", "t", " ", "l", "à",
          " ", "n", "g", "ô", "n", " ", "n", "g", "ữ", " ", "l", "ậ", "p",
          " ", "t", "r", "ì", "n", "h", " ", "p", "h", "ổ", " ", "b", "i",
          "ế", "n", " ", "c", "h", "o", " ", "w", "e", "b", " ", "d", "e",
          "v", "e", "l", "o", "p", "m", "e", "n", "t", "." >>,
       << "M", "a", "c", "h", "i", "n", "e", " ", "l", "e", "a", "r", "n",
          "i", "n", "g", " ", "l", "à", " ", "m", "ộ", "t", " ", "p", "h",
          "ầ", "n", " ", "c", "ủ", "a", " ", "A", "I", " ", "g", "i", "ú",
          "p", " ", "m", "á", "y", " ", "t", "í", "n", "h", " ", "h", "ọ",
          "c", " ", "t", "ừ", " ", "d", "ữ", " ", "l", "i", "ệ", "u", "." >>,
       << "P", "y", "t", "h", "o", "n", " ", "l", "à", " ", "n", "g", "ô",
          "n", " ", "n", "g", "ữ", " ", "l", "ậ", "p", " ", "t", "r", "ì",
          "n", "h", " ", "d/", "ư", "ợ", "c", " ", "s", "ử", " ", "d", "ụ",
          "n", "g", " ", "n", "h", "i", "ề", "u", " ", "t", "r", "o", "n",
          "g", " ", "A", "I", " ", "v", "à", " ", "d", "a", "t", "a", " ",
          "s", "c", "i", "e", "n", "c", "e", "." >> >>

\* The table of generateIntentResponse; a confidence is in thousandths.
intentResponses ==
    [ greeting |->
        [ responses |->
            << << "X", "i", "n", " ", "c", "h", "à", "o", "!", " ", "T",
                  "ô", "i", " ", "l", "à", " ", "A", "I", " ", "a", "s",
                  "s", "i", "s", "t", "a", "n", "t", ".", " ", "T", "ô",
                  "i", " ", "c", "ó", " ", "t", "h", "ể", " ", "g", "i",
                  "ú", "p", " ", "g", "ì", " ", "c", "h", "o", " ", "b",
                  "ạ", "n", "?" >>,
               << "C", "h", "à", "o", " ", "b", "ạ", "n", "!", " ", "R",
                  "ấ", "t", " ", "v", "u", "i", " ", "d/", "ư", "ợ", "c",
                  " ", "g", "ặ", "p", " ", "b", "ạ", "n", ".", " ", "H",
                  "ô", "m", " ", "n", "a", "y", " ", "b", "ạ", "n", " ",
                  "c", "ầ", "n", " ", "h", "ỗ", " ", "t", "r", "ợ", " ",
                  "g", "ì", "?" >>,
               << "H", "i", "!", " ", "T", "ô", "i", " ", "s", "ẵ", "n",
                  " ", "s", "à", "n", "g", " ", "t", "r", "ò", " ", "c",
                  "h", "u", "y", "ệ", "n", " ", "v", "ớ", "i", " ", "b",
                  "ạ", "n", " ", "v", "ề", " ", "b", "ấ", "t", " ", "c",
                  "ứ", " ", "d/", "i", "ề", "u", " ", "g", "ì", "." >> >>,
          confidence |-> 900 ],
      question |->
        [ responses |->
            << << "D/", "ó", " ", "l", "à", " ", "m", "ộ", "t", " ", "c",
                  "â", "u", " ", "h", "ỏ", "i", " ", "h", "a", "y", "!",
                  " ", "D/", "ể", " ", "t", "ô", "i", " ", "s", "u", "y",
                  " ", "n", "g", "h", "i~", ".", ".", "." >>,
               << "T", "ô", "i", " ", "h", "i", "ể", "u", " ", "b", "ạ",
                  "n", " ", "m", "u", "ố", "n", " ", "b", "i", "ế", "t",
                  " ", "v", "ề", " ", "d/", "i", "ề", "u", " ", "n", "à",
                  "y", ".", " ", "D", "ự", "a", " ", "v", "à", "o", " ",
                  "k", "i", "ế", "n", " ", "t", "h", "ứ", "c", " ", "c",
                  "ủ", "a", " ", "t", "ô", "i", ".", ".", "." >>,
               << "T", "h", "e", "o", " ", "n", "h", "ư", " ", "t", "ô",
                  "i", " ", "b", "i", "ế", "t", ".", ".", "." >> >>,
          confidence |-> 700 ],
      request |->
        [ responses |->
            << << "T", "ô", "i", " ", "s", "ẽ", " ", "c", "ố", " ", "g",
                  "ắ", "n", "g", " ", "g", "i", "ú", "p", " ", "b", "ạ",
                  "n", "." >>,
               << "D/", "ể", " ", "t", "ô", "i", " ", "x", "e", "m", " ",
                  "t", "ô", "i", " ", "c", "ó", " ", "t", "h", "ể", " ",
                  "h", "ỗ", " ", "t", "r", "ợ", " ", "g", "ì", ".", ".",
                  "." >>,
               << "T", "ô", "i", " ", "s", "ẽ", " ", "l", "à", "m", " ",
                  "h", "ế", "t", " ", "s", "ứ", "c", " ", "d/", "ể", " ",
                  "g", "i", "ú", "p", " ", "b", "ạ", "n", "." >> >>,
          confidence |-> 800 ],
      goodbye |->
        [ responses |->
            << << "T", "ạ", "m", " ", "b", "i", "ệ", "t", "!", " ", "R",
                  "ấ", "t", " ", "v", "u", "i", " ", "d/", "ư", "ợ", "c",
                  " ", "t", "r", "ò", " ", "c", "h", "u", "y", "ệ", "n",
                  " ", "v", "ớ", "i", " ", "b", "ạ", "n", "." >>,
               << "B", "y", "e", " ", "b", "y", "e", "!", " ", "H", "ẹ",
                  "n", " ", "g", "ặ", "p", " ", "l", "ạ", "i", " ", "b",
                  "ạ", "n", "." >>,
               << "C", "h", "à", "o", " ", "t", "ạ", "m", " ", "b", "i",
                  "ệ", "t", "!", " ", "C", "h", "ú", "c", " ", "b", "ạ",
                  "n", " ", "m", "ộ", "t", " ", "n", "g", "à", "y", " ",
                  "t", "ố", "t", " ", "l", "à", "n", "h", "." >> >>,
          confidence |-> 900 ],
      compliment |->
        [ responses |->
            << << "C", "ả", "m", " ", "ơ", "n", " ", "b", "ạ", "n", "!",
                  " ", "T", "ô", "i", " ", "r", "ấ", "t", " ", "v", "u",
                  "i", " ", "k", "h", "i", " ", "d/", "ư", "ợ", "c", " ",
                  "k", "h", "e", "n", "." >>,
               << "T", "h", "a", "n", "k", " ", "y", "o", "u", "!", " ",
                  "T", "ô", "i", " ", "s", "ẽ", " ", "c", "ố", " ", "g",
                  "ắ", "n", "g", " ", "l", "à", "m", " ", "t", "ố", "t",
                  " ", "h", "ơ", "n", "." >>,
               << "C", "ả", "m", " ", "ơ", "n", " ", "l", "ờ", "i", " ",
                  "k", "h", "e", "n", "!", " ", "D/", "i", "ề", "u", " ",
                  "d/", "ó", " ", "d/", "ộ", "n", "g", " ", "v", "i", "ê",
                  "n", " ", "t", "ô", "i", " ", "r", "ấ", "t", " ", "n",
                  "h", "i", "ề", "u", "." >> >>,
          confidence |-> 850 ] ]

\* The prefixes and suffixes of applyPersonality for the personality
\* 'helpful and friendly', which is the default and the one that an unknown
\* personality falls back to.
personalityTraits ==
    [ prefixes |->
        << << >>,
           << "T", "ô", "i", " ", "n", "g", "h", "i~", " ", "r", "ằ", "n",
              "g", " " >>,
           << "T", "h", "e", "o", " ", "ý", " ", "k", "i", "ế", "n", " ",
              "c", "ủ", "a", " ", "t", "ô", "i", ",", " " >> >>,
      suffixes |->
        << << >>,
           << " ", "B", "ạ", "n", " ", "c", "ó", " ", "c", "ầ", "n", " ",
              "t", "h", "ê", "m", " ", "t", "h", "ô", "n", "g", " ", "t",
              "i", "n", " ", "g", "ì", " ", "k", "h", "ô", "n", "g", "?" >>,
           << " ", "H", "y", " ", "v", "ọ", "n", "g", " ", "d/", "i", "ề",
              "u", " ", "n", "à", "y", " ", "h", "ữ", "u", " ", "í", "c",
              "h", "!" >> >> ]

\* The fixed pieces of the texts that AIAgent composes.
AgentText ==
    [ user_said |->
        << "U", "s", "e", "r", " ", "s", "a", "i", "d", ":", " ", "\"" >>,
      ai_responded |->
        << "\"", " ", "-", ">", " ", "A", "I", " ", "r", "e", "s", "p", "o",
           "n", "d", "e", "d", ":", " ", "\"" >>,
      positive_feedback |->
        << "\"", " ", "-", ">", " ", "P", "o", "s", "i", "t", "i", "v", "e",
           " ", "f", "e", "e", "d", "b", "a", "c", "k" >>,
      understood |->
        << "T", "ô", "i", " ", "h", "i", "ể", "u", "!", " " >>,
      that_is_positive |->
        << " ", "D/", "ó", " ", "l", "à", " ", "d/", "i", "ề", "u", " ", "t",
           "í", "c", "h", " ", "c", "ự", "c", "." >>,
      not_happy |->
        << "T", "ô", "i", " ", "t", "h", "ấ", "y", " ", "b", "ạ", "n", " ",
           "c", "ó", " ", "v", "ẻ", " ", "k", "h", "ô", "n", "g", " ", "v",
           "u", "i", " ", "v", "ề", " ", "d/", "i", "ề", "u", " ", "n", "à",
           "y", ".", " " >>,
      can_i_help |->
        << " ", "T", "ô", "i", " ", "c", "ó", " ", "t", "h", "ể", " ", "g",
           "i", "ú", "p", " ", "g", "ì", " ", "k", "h", "ô", "n", "g",
           "?" >>,
      about_this |->
        << "V", "ề", " ", "v", "ấ", "n", " ", "d/", "ề", " ", "n", "à", "y",
           ",", " " >>,
      you_are_welcome |->
        << "K", "h", "ô", "n", "g", " ", "c", "ó", " ", "g", "ì", "!", " ",
           "T", "ô", "i", " ", "r", "ấ", "t", " ", "v", "u", "i", " ", "d/",
           "ư", "ợ", "c", " ", "g", "i", "ú", "p", " ", "d/", "ỡ", " ", "b",
           "ạ", "n", "." >>,
      sorry |->
        << "X", "i", "n", " ", "l", "ỗ", "i", ",", " ", "t", "ô", "i", " ",
           "g", "ặ", "p", " ", "v", "ấ", "n", " ", "d/", "ề", " ", "k", "h",
           "i", " ", "x", "ử", " ", "l", "ý", " ", "t", "i", "n", " ", "n",
           "h", "ắ", "n", " ", "c", "ủ", "a", " ", "b", "ạ", "n", ".", " ",
           "B", "ạ", "n", " ", "c", "ó", " ", "t", "h", "ể", " ", "t", "h",
           "ử", " ", "l", "ạ", "i", " ", "k", "h", "ô", "n", "g", "?" >> ]

\* String.prototype.trim, for the spaces at the two ends.
RECURSIVE Trim(_)
Trim(s) ==
    IF s # << >> /\ Head(s) = " " THEN Trim(Tail(s))
    ELSE IF s # << >> /\ s[Len(s)] = " " THEN Trim(Pop(s))
    ELSE s

\* `!!x` for a payload: a string that is not empty, or an object.
Truthy(x) == IF IsString(x) THEN x.s # << >> ELSE x.t = "obj"

\* The key `knowledge_${Date.now()}_${Math.random()}` of the n-th sentence.
KnowledgeKey(n) == << "knowledge", n >>

\* AIAgent.loadInitialKnowledge: the first n sentences put into the store.
RECURSIVE LoadInitialKnowledge(_, _, _, _)
LoadInitialKnowledge(st, capacity, n, time) ==
    IF n = 0 THEN st
    ELSE AddToLongTermStore(
             LoadInitialKnowledge(st, capacity, n - 1, time), capacity,
             KnowledgeKey(n), Str(basicKnowledge[n]), 800, time)

\* The config object that initializeComponents gives to new Memory.
MemoryConfig(config) ==
    [ shortTermCapacity |-> { OrDefault(config.shortTermCapacity, 15) },
      longTermCapacity |-> { OrDefault(config.longTermCapacity, 2000) },
      episodicCapacity |-> { OrDefault(config.episodicCapacity, 1000) } ]

\* new AIAgent(config): the memory with the initial knowledge in it, the
\* reasoning engine, the flags.  config.learning is a set, empty when the
\* field is absent.
AIAgentConstructor(config) ==
    LET capacity == OrDefault(MemoryConfig(config).longTermCapacity,
                              Default.longTermCapacity)
        loaded == LoadInitialKnowledge(
                      [ longTerm |-> << >>, memoryWeights |-> EmptyMap,
                        accessCount |-> EmptyMap, lastAccess |-> EmptyMap ],
                      capacity, Len(basicKnowledge), 0)
    IN  /\ now = 0
        /\ cfg = MemoryConfig(config)
        /\ shortTermCapacity = OrDefault(cfg.shortTermCapacity,
                                         Default.shortTermCapacity)
        /\ longTermCapacity = capacity
        /\ episodicCapacity = OrDefault(cfg.episodicCapacity,
                                        Default.episodicCapacity)
        /\ decayRate = Default.decayRate
        /\ consolidationThreshold = Default.consolidationThreshold
        /\ shortTerm = << >>
        /\ episodic = << >>
        /\ longTerm = loaded.longTerm
        /\ memoryWeights = loaded.memoryWeights
        /\ accessCount = loaded.accessCount
        /\ lastAccess = loaded.lastAccess
        /\ nextId = 1
        /\ ReasoningEngineConstructor
        /\ conversationHistory = << >>
        /\ isLearning = (config.learning # { FALSE })
        /\ isTraining = FALSE
        /\ call = [ op |-> "new", args |-> << >> ]
        /\ err = "none"
        /\ results = << >>

\* new ChatInterface(aiAgent) on a page that has the elements of ids.
ChatInterfaceConstructor(ids) ==
    /\ isTyping = FALSE
    /\ document = ids

\* An async call: the function, where it stands ("awaiting" at its await,
\* "returned" when it is over, another position inside a synchronous
\* stretch), its arguments, its local values, what it returned or threw.
Called(fn, at, args, locals, out) ==
    [ fn |-> fn, at |-> at, args |-> args, locals |-> locals, out |-> out ]
Returns(c, out) == [ c EXCEPT !.at = "returned", !.out = out ]
At(k, fn, at) == k \in 1..Len(pc) /\ pc[k].fn = fn /\ pc[k].at = at

\* A call is inside a synchronous stretch: nothing else runs before it
\* reaches its await or returns.
Busy == \E k \in 1..Len(pc) : pc[k].at \notin { "awaiting", "returned" }

\* AIAgent.toggleLearning()
ToggleLearning ==
    /\ ~Busy
    /\ isLearning' = ~isLearning
    /\ UNCHANGED << coreVars, isTraining, conversationHistory, isTyping,
                    document, pc >>

--------------------------------------------------------------------------
(* AIAgent.trainNetwork                                                    *)

\* AIAgent.prepareTrainingData: one input vector for each conversation (the
\* vocabulary of the initial knowledge gives every text a vector that is
\* not empty).
PrepareTrainingData(history) == [ inputs |-> Len(history) ]

\* trainNetwork that does not look at isTraining.
TrainNetworkUnguarded(training, trainingData, history, trainThrows) ==
    LET data == IF trainingData = Undefined
                THEN PrepareTrainingData(history) ELSE trainingData
    IN  IF data = Obj \/ data.inputs = 0
        THEN [ isTraining |-> FALSE, at |-> "returned", trained |-> FALSE,
               out |-> IF data = Obj THEN "failed" ELSE "no data" ]
        ELSE IF trainThrows
        THEN [ isTraining |-> FALSE, at |-> "returned", trained |-> TRUE,
               out |-> "failed" ]
        ELSE [ isTraining |-> TRUE, at |-> "awaiting", trained |-> TRUE,
               out |-> "none" ]

\* AIAgent.trainNetwork(trainingData) as far as its await: the flag it
\* leaves, where the call stands and whether it has called brain.train.
\* trainingData is Undefined for none,
\* Obj for an object without inputs, or [inputs |-> the number of vectors];
\* data.inputs of an object that has none throws a TypeError, which the
\* catch takes like an exception of brain.train.
TrainNetworkCalled(training, trainingData, history, trainThrows) ==
    IF training
    THEN [ isTraining |-> TRUE, at |-> "returned", trained |-> FALSE,
           out |-> "skipped" ]
    ELSE TrainNetworkUnguarded(training, trainingData, history, trainThrows)

\* A call of trainNetwork, up to the await of brain.train or to its return.
TrainNetwork(trainingData, trainThrows) ==
    LET r == TrainNetworkCalled(isTraining, trainingData,
                                conversationHistory, trainThrows)
    IN  /\ ~Busy
        /\ isTraining' = r.isTraining
        /\ pc' = Append(pc, Called("trainNetwork", r.at, << trainingData >>,
                                   [ trained |-> r.trained ], r.out))
        /\ UNCHANGED << coreVars, isLearning, conversationHistory, isTyping,
                        document >>

\* trainNetwork after the await: brain.evaluate, the catch, the finally.
TrainNetworkResumed(k, evaluateThrows) ==
    /\ ~Busy
    /\ At(k, "trainNetwork", "awaiting")
    /\ isTraining' = FALSE
    /\ pc' = [ pc EXCEPT ![k] =
                 Returns(@, IF evaluateThrows THEN "failed"
                            ELSE "completed") ]
    /\ UNCHANGED << coreVars, isLearning, conversationHistory, isTyping,
                    document >>

--------------------------------------------------------------------------
(* AIAgent.processMessage                                                  *)
(*                                                                         *)
(* The text processor, the language model, the neural network and          *)
(* Math.random are the environment of the agent: what nlp.preprocess,      *)
(* generatePatternResponse, languageModel.generateText, brain.train and    *)
(* brain.evaluate give, and the indexes that Math.random picks, are inputs *)
(* of the actions.  So is what generateFallbackResponse gives: main.js     *)
(* calls it and does not define it.  processMessage is a sequence of calls *)
(* on the memory and on the reasoning engine; each call is one step, and   *)
(* the steps of a synchronous stretch follow each other with nothing in    *)
(* between (Busy).                                                         *)

\* What the catch of processMessage returns.
ErrorFallback ==
    [ content |-> Str(AgentText.sorry), confidence |-> 500, error |-> TRUE ]

\* What processMessage returns at its end.
Answer(response) ==
    [ content |-> response.content, confidence |-> response.confidence,
      error |-> FALSE ]

\* AIAgent.generateContextualResponse(context, processedInput)
GenerateContextualResponse(context, processedInput) ==
    IF processedInput.sentiment.sentiment = "positive"
    THEN AgentText.understood \o StringOf(context)
             \o AgentText.that_is_positive
    ELSE IF processedInput.sentiment.sentiment = "negative"
    THEN AgentText.not_happy \o StringOf(context) \o AgentText.can_i_help
    ELSE AgentText.about_this \o StringOf(context)

\* AIAgent.applyPersonality(response) with the two indexes that
\* Math.random picks.
ApplyPersonality(response, random) ==
    personalityTraits.prefixes[random.prefix] \o response
        \o personalityTraits.suffixes[random.suffix]

\* Whether generateResponse comes to its memory.recall: the intent has no
\* table entry and the first conclusion is missing or falsy.
RecallsMemory(processedInput, reasoning) ==
    /\ processedInput.intent.intent \notin DOMAIN intentResponses
    /\ \/ reasoning.conclusions = << >>
       \/ ~Truthy(reasoning.conclusions[1])

\* AIAgent.generateResponse(processedInput, reasoning), given what
\* memory.recall found and what the environment gives: other.pattern from
\* generatePatternResponse (Undefined for null), other.text from
\* generateText, other.fallback from generateFallbackResponse (Undefined
\* when the call throws).  response.trim() throws a TypeError for a
\* conclusion that is an object.
GenerateResponse(processedInput, reasoning, memoryResults, random, other) ==
    LET intent == processedInput.intent.intent
        byIntent ==
            IF intent \in DOMAIN intentResponses
            THEN [ response |->
                     Str(intentResponses[intent].responses[random.intent]),
                   confidence |-> intentResponses[intent].confidence ]
            ELSE [ response |-> Str(<< >>), confidence |-> 500 ]
        byReasoning ==
            IF ~Truthy(byIntent.response) /\ reasoning.conclusions # << >>
            THEN [ response |-> reasoning.conclusions[1],
                   confidence |-> reasoning.confidence ]
            ELSE byIntent
        byMemory ==
            IF ~Truthy(byReasoning.response) /\ memoryResults # << >>
            THEN [ response |->
                     Str(GenerateContextualResponse(memoryResults[1].content,
                                                    processedInput)),
                   confidence |-> memoryResults[1].relevance ]
            ELSE byReasoning
        byPattern ==
            IF ~Truthy(byMemory.response)
            THEN [ response |-> other.pattern, confidence |-> 600 ]
            ELSE byMemory
        byModel ==
            IF ~Truthy(byPattern.response)
            THEN [ response |-> other.text, confidence |-> 400 ]
            ELSE byPattern
        byFallback ==
            IF ~Truthy(byModel.response) \/ Trim(byModel.response.s) = << >>
            THEN [ response |-> other.fallback, confidence |-> 300 ]
            ELSE byModel
    IN  IF \/ byModel.response.t = "obj"
           \/ ~IsString(byFallback.response)
        THEN [ threw |-> TRUE, content |-> Undefined, confidence |-> 0 ]
        ELSE [ threw |-> FALSE,
               content |->
                 Str(Trim(ApplyPersonality(byFallback.response.s, random))),
               confidence |-> Max(100, Min(1000, byFallback.confidence)) ]

\* The unchanged part of every step of processMessage.
ProcessFrame == UNCHANGED << isLearning, isTraining, document >>

\* processMessage(message) called, after the calls of pc: nlp.preprocess,
\* which throws for a message that is not a string, and addToShortTerm of
\* the user_message object.
ProcessMessageCalled(calls, message, processedInput) ==
    /\ ~Busy
    /\ IF ~IsString(message)
       THEN /\ pc' = Append(calls, Called("processMessage", "returned",
                                          << message >>, << >>,
                                          ErrorFallback))
            /\ UNCHANGED coreVars
       ELSE /\ AddToShortTerm(Obj)
            /\ pc' = Append(calls,
                   Called("processMessage", "reason", << message >>,
                          [ processedInput |-> processedInput ], << >>))
    /\ UNCHANGED conversationHistory
    /\ ProcessFrame

\* agent.processMessage(message) called by a script.
ProcessMessage(message, processedInput) ==
    /\ ProcessMessageCalled(pc, message, processedInput)
    /\ UNCHANGED isTyping

\* this.reasoning.reason(message)
ProcessReason(k) ==
    /\ At(k, "processMessage", "reason")
    /\ Reason(pc[k].args[1], 3)
    /\ pc' = [ pc EXCEPT ![k] =
                 IF err' # "none" THEN Returns(@, ErrorFallback)
                 ELSE [ @ EXCEPT
                          !.at = "respond",
                          !.locals = [ processedInput |->
                                         @.processedInput,
                                       reasoning |-> results' ] ] ]
    /\ UNCHANGED << conversationHistory, isTyping >>
    /\ ProcessFrame

\* this.generateResponse(processedInput, reasoning), and the await of it.
ProcessRespond(k, random, other) ==
    /\ At(k, "processMessage", "respond")
    /\ IF RecallsMemory(pc[k].locals.processedInput, pc[k].locals.reasoning)
       THEN Recall(pc[k].args[1], "all")
       ELSE UNCHANGED coreVars
    /\ \E response \in
           { GenerateResponse(
                 pc[k].locals.processedInput, pc[k].locals.reasoning,
                 IF RecallsMemory(pc[k].locals.processedInput,
                                  pc[k].locals.reasoning)
                 THEN results' ELSE << >>,
                 random, other) } :
           pc' = [ pc EXCEPT ![k] =
                     IF response.threw THEN Returns(@, ErrorFallback)
                     ELSE [ @ EXCEPT
                              !.at = "awaiting",
                              !.locals =
                                  [ processedInput |-> @.processedInput,
                                    reasoning |-> @.reasoning,
                                    response |->
                                      [ content |-> response.content,
                                        confidence |->
                                          response.confidence ] ] ] ]
    /\ UNCHANGED << conversationHistory, isTyping >>
    /\ ProcessFrame

\* processMessage after its await: addToShortTerm of the ai_response
\* object, and `if (this.isLearning)`.
ProcessResumed(k) ==
    /\ ~Busy
    /\ At(k, "processMessage", "awaiting")
    /\ AddToShortTerm(Obj)
    /\ pc' = [ pc EXCEPT
                 ![k].at = IF isLearning THEN "learn" ELSE "push",
                 ![k].locals = [ processedInput |-> @.processedInput,
                                 reasoning |-> @.reasoning,
                                 response |-> @.response,
                                 learning |-> isLearning ] ]
    /\ UNCHANGED << conversationHistory, isTyping >>
    /\ ProcessFrame

\* The text that learnFromInteraction stores for a positive message.
SuccessfulPattern(userMessage, aiResponse) ==
    AgentText.user_said \o StringOf(userMessage) \o AgentText.ai_responded
        \o StringOf(aiResponse) \o AgentText.positive_feedback

\* learnFromInteraction: the successful pattern.
LearnPattern(k) ==
    /\ At(k, "processMessage", "learn")
    /\ IF pc[k].locals.processedInput.sentiment.sentiment = "positive"
       THEN AddToLongTerm(<< "successful_pattern", now >>,
                          Str(SuccessfulPattern(
                                  pc[k].args[1],
                                  pc[k].locals.response.content)),
                          700)
       ELSE UNCHANGED coreVars
    /\ pc' = [ pc EXCEPT ![k].at = "episode" ]
    /\ UNCHANGED << conversationHistory, isTyping >>
    /\ ProcessFrame

\* learnFromInteraction: addEpisodicMemory of the conversation object.
LearnEpisode(k) ==
    /\ At(k, "processMessage", "episode")
    /\ AddEpisodicMemory(Obj)
    /\ pc' = [ pc EXCEPT ![k] =
                 IF err' # "none" THEN Returns(@, ErrorFallback)
                 ELSE [ @ EXCEPT !.at = "rule" ] ]
    /\ UNCHANGED << conversationHistory, isTyping >>
    /\ ProcessFrame

\* The end of processMessage: the rule that learnFromInteraction adds for a
\* confident intent, the entry of the conversation history, the return.
ProcessReturn(k) ==
    /\ k \in 1..Len(pc)
    /\ pc[k].fn = "processMessage"
    /\ pc[k].at \in { "rule", "push" }
    /\ IF /\ pc[k].at = "rule"
          /\ pc[k].locals.processedInput.intent.confidence > 800
       THEN AddRule("learned_" \o ToString(now),
                    << pc[k].args[1].s >>,
                    pc[k].locals.response.content.s,
                    (pc[k].locals.processedInput.intent.confidence * 600)
                        \div 1000)
       ELSE UNCHANGED coreVars
    /\ conversationHistory' =
           Append(conversationHistory,
                  [ user |-> pc[k].args[1],
                    ai |-> pc[k].locals.response.content,
                    timestamp |-> now,
                    processing |-> pc[k].locals.processedInput,
                    reasoning |-> pc[k].locals.reasoning ])
    /\ pc' = [ pc EXCEPT ![k] = Returns(@, Answer(@.locals.response)) ]
    /\ UNCHANGED isTyping
    /\ ProcessFrame

--------------------------------------------------------------------------
(* ChatInterface.sendMessage                                               *)

\* sendMessage() called while the input element holds value.  The element
\* may be missing (input.value throws a TypeError); addMessage returns at
\* once on a page without #messages, but showTyping has set isTyping when
\* its appendChild on the missing element throws, outside the try.
SendMessage(value, processedInput) ==
    LET sent(at, out) ==
            Called("sendMessage", at, << Str(value) >>, << >>, out)
    IN  /\ ~Busy
        /\ IF "message-input" \notin document
           THEN /\ pc' = Append(pc, sent("returned", "TypeError"))
                /\ UNCHANGED << coreVars, conversationHistory, isTyping >>
                /\ ProcessFrame
           ELSE IF Trim(value) = << >> \/ isTyping
           THEN /\ pc' = Append(pc, sent("returned", "nothing sent"))
                /\ UNCHANGED << coreVars, conversationHistory, isTyping >>
                /\ ProcessFrame
           ELSE IF "messages" \notin document
           THEN /\ isTyping' = TRUE
                /\ pc' = Append(pc, sent("returned", "TypeError"))
                /\ UNCHANGED << coreVars, conversationHistory >>
                /\ ProcessFrame
           ELSE /\ isTyping' = TRUE
                /\ ProcessMessageCalled(Append(pc, sent("awaiting", << >>)),
                                        Str(Trim(value)), processedInput)

\* sendMessage after its await, when the processMessage that it called
\* (the next call of pc) has returned: hideTyping and addMessage, in the
\* try and in the catch alike.
SendMessageResumed(k) ==
    /\ ~Busy
    /\ At(k, "sendMessage", "awaiting")
    /\ pc[k + 1].at = "returned"
    /\ isTyping' = FALSE
    /\ pc' = [ pc EXCEPT ![k] = Returns(@, "answer shown") ]
    /\ UNCHANGED << coreVars, conversationHistory >>
    /\ ProcessFrame

--------------------------------------------------------------------------
(* SpecAgent: an AIAgent whose processMessage, trainNetwork and            *)
(* toggleLearning are called by a script, at most MaxCalls async calls.    *)

MaxCalls == 2           \* at most MaxCalls async calls are made
MaxAgentTicks == 1      \* at most MaxAgentTicks steps of a millisecond

\* The config object {}.
NoAgentConfig ==
    [ shortTermCapacity |-> {}, longTermCapacity |-> {},
      episodicCapacity |-> {}, learning |-> {} ]

\* The messages, each with what nlp.preprocess makes of it: "ai" is a
\* question word, "good" is a positive word and part of two greetings,
\* "wet" is in no list.
Analysed ==
    { [ message |-> Str(Input.ai),
        processedInput |->
          [ originalText |-> Str(Input.ai),
            sentiment |-> [ sentiment |-> "neutral" ],
            intent |-> [ intent |-> "question", confidence |-> 1000 ] ] ],
      [ message |-> Str(Input.good),
        processedInput |->
          [ originalText |-> Str(Input.good),
            sentiment |-> [ sentiment |-> "positive" ],
            intent |-> [ intent |-> "greeting", confidence |-> 2000 ] ] ],
      [ message |-> Str(Input.wet),
        processedInput |->
          [ originalText |-> Str(Input.wet),
            sentiment |-> [ sentiment |-> "neutral" ],
            intent |-> [ intent |-> "unknown", confidence |-> 0 ] ] ] }

\* The indexes that Math.random picks in the specifications.
Randoms == { [ intent |-> 3, prefix |-> 1, suffix |-> 1 ] }

\* What the environment gives to generateResponse in the specifications:
\* nothing at all, the answer of the pattern for thanks, or a text from
\* generateFallbackResponse.
Others ==
    { [ pattern |-> Undefined, text |-> Str(<< >>), fallback |-> Undefined ],
      [ pattern |-> Str(AgentText.you_are_welcome), text |-> Str(<< >>),
        fallback |-> Undefined ],
      [ pattern |-> Undefined, text |-> Str(<< >>),
        fallback |-> Str(Input.ai) ] }

AgentInit ==
    /\ \E config \in { NoAgentConfig,
                       [ NoAgentConfig EXCEPT !.shortTermCapacity = {1},
                                              !.learning = { FALSE } ] } :
           AIAgentConstructor(config)
    /\ ChatInterfaceConstructor({})
    /\ pc = << >>

AgentNext ==
    \/ Len(pc) > 0 /\ ToggleLearning
    \/ \E a \in Analysed \cup { [ message |-> Obj, processedInput |-> Obj ] } :
           Len(pc) < MaxCalls /\ ProcessMessage(a.message, a.processedInput)
    \/ \E k \in 1..Len(pc) : ProcessReason(k)
    \/ \E k \in 1..Len(pc), random \in Randoms, other \in Others :
           ProcessRespond(k, random, other)
    \/ \E k \in 1..Len(pc) : ProcessResumed(k)
    \/ \E k \in 1..Len(pc) : LearnPattern(k)
    \/ \E k \in 1..Len(pc) : LearnEpisode(k)
    \/ \E k \in 1..Len(pc) : ProcessReturn(k)
    \/ \E trainingData \in { Undefined, Obj, [ inputs |-> 0 ],
                             [ inputs |-> 2 ] },
          trainThrows \in BOOLEAN :
           Len(pc) < MaxCalls /\ TrainNetwork(trainingData, trainThrows)
    \/ \E k \in 1..Len(pc), evaluateThrows \in BOOLEAN :
           TrainNetworkResumed(k, evaluateThrows)
    \/ /\ ~Busy
       /\ now < MaxAgentTicks
       /\ Tick(1)
       /\ UNCHANGED agentVars

SpecAgent == AgentInit /\ [][AgentNext]_vars

--------------------------------------------------------------------------
(* SpecChat: a ChatInterface on a page that has all, one or none of        *)
(* #message-input and #messages; sendMessage is called at most MaxSends    *)
(* times.                                                                  *)

MaxSends == 3           \* sendMessage is called at most MaxSends times

\* The number of sendMessage calls made.
Sends == Cardinality({ k \in 1..Len(pc) : pc[k].fn = "sendMessage" })

ChatInit ==
    /\ \E config \in { NoAgentConfig,
                       [ NoAgentConfig EXCEPT !.learning = { FALSE } ] } :
           AIAgentConstructor(config)
    /\ \E ids \in SUBSET { "message-input", "messages" } :
           ChatInterfaceConstructor(ids)
    /\ pc = << >>

ChatNext ==
    \/ \E a \in Analysed, spaces \in { << >>, << " " >> } :
           /\ Sends < MaxSends
           /\ SendMessage(a.message.s \o spaces, a.processedInput)
    \/ Sends < MaxSends /\ SendMessage(<< " " >>, Obj)
    \/ \E k \in 1..Len(pc) : ProcessReason(k)
    \/ \E k \in 1..Len(pc), random \in Randoms, other \in Others :
           ProcessRespond(k, random, other)
    \/ \E k \in 1..Len(pc) : ProcessResumed(k)
    \/ \E k \in 1..Len(pc) : LearnPattern(k)
    \/ \E k \in 1..Len(pc) : LearnEpisode(k)
    \/ \E k \in 1..Len(pc) : ProcessReturn(k)
    \/ \E k \in 1..Len(pc) : SendMessageResumed(k)

SpecChat == ChatInit /\ [][ChatNext]_vars

--------------------------------------------------------------------------
(* Claims about Memory                                                     *)

\* C1: for every configured capacity C >= 0, C = 0 included, each tier's
\* size is at most the capacity configured for it, after any sequence of
\* adds.  (`config.x || default` replaces a configured 0 by the default.)
CapacityAsConfigured ==
    /\ \A c \in cfg.shortTermCapacity : Len(shortTerm) <= c
    /\ \A c \in cfg.longTermCapacity : Len(longTerm) <= c
    /\ \A c \in cfg.episodicCapacity : Len(episodic) <= c

\* A step of addToShortTerm that overflows the buffer, and the item it
\* removes (the capacity in force is at least 1, so it is the oldest one).
OverflowingAddToShortTerm ==
    /\ nextId' = nextId + 1
    /\ call'.op = "addToShortTerm"
    /\ shortTerm # << >>
    /\ Len(shortTerm) + 1 > shortTermCapacity
Removed == Head(shortTerm)
\* The long-term store after the step holds one new entry, keyed from the
\* removed item's id, consolidated, with its content and importance.
PromotedIsThere ==
    LET key == ConsolidatedKey(Removed.id)
    IN  /\ LTKeys(longTerm') \ LTKeys(longTerm) = { key }
        /\ LTGet(longTerm', key).consolidated
        /\ LTGet(longTerm', key).content = Removed.content
        /\ LTGet(longTerm', key).importance = Removed.importance
        /\ memoryWeights'[key] = Removed.importance
\* The store is full and the promoted entry would have the lowest composite
\* score of all: capacity management deletes it as soon as it is inserted.
PromotedIsLowest ==
    /\ Len(longTerm) >= longTermCapacity
    /\ \A i \in 1..Len(longTerm) :
           Removed.importance + now < CompositeScore(longTerm[i])

RecallOrdering ==
    call.op = "recall" =>
        LET query == call.args[1]
            memoryType == call.args[2]
            Returned(tier, id) ==
                \E j \in 1..Len(results) :
                    results[j].type = tier /\ results[j].id = id
        IN  /\ \A i \in 1..(Len(results) - 1) :
                   results[i].relevance >= results[i + 1].relevance
            /\ \A i \in 1..Len(results) : results[i].relevance > 100
            /\ memoryType \in { "all", "shortterm" } =>
                   \A i \in 1..Len(shortTerm) :
                       CalculateRelevance(query, shortTerm[i].content) > 100
                           => Returned("shortterm", shortTerm[i].id)
            /\ memoryType \in { "all", "longterm" } =>
                   \A i \in 1..Len(longTerm) :
                       CalculateRelevance(query, longTerm[i].content) > 100
                           => Returned("longterm", longTerm[i].key)
            /\ memoryType \in { "all", "episodic" } =>
                   \A i \in 1..Len(episodic) :
                       CalculateRelevance(query, episodic[i].event) > 100
                           => Returned("episodic", episodic[i].id)

\* C5 witness: a recall over all tiers returned a long-term result ahead of
\* a less relevant short-term one, and left a stored item out.
RecallOrderingWitness ==
    /\ call.op = "recall"
    /\ Len(results) >= 2
    /\ results[1].type = "longterm"
    /\ results[2].type = "shortterm"
    /\ results[1].relevance > results[2].relevance
    /\ Len(results) < Len(shortTerm) + Len(longTerm) + Len(episodic)

\* C6 (Memory): no public operation raises an exception for a structured
\* payload or an empty string.
NoException == err = "none"

\* C7: the weight index has exactly the keys of the long-term store, each
\* with the importance of its item.
WeightIndexInSync ==
    /\ DOMAIN memoryWeights = LTKeys(longTerm)
    /\ \A i \in 1..Len(longTerm) :
           memoryWeights[longTerm[i].key] = longTerm[i].importance

\* A step of recall that returned something.
RecallStep == call'.op = "recall" /\ accessCount' # accessCount
\* The long-term keys that the recall of this step returned.
ReturnedKeys ==
    { results'[j].id : j \in { i \in 1..Len(results') :
                                  results'[i].type = "longterm" } }

\* C9: recall adds one to the access count of every long-term MemoryItem it
\* returns and sets the item's last-access time to the time of the call
\* (the fields that capacity management and applyDecay read).
RecallUpdatesItem ==
    [][ RecallStep =>
          \A key \in ReturnedKeys :
              /\ LTGet(longTerm', key).accessCount
                     = LTGet(longTerm, key).accessCount + 1
              /\ LTGet(longTerm', key).lastAccess = now ]_vars

\* C10: the recall that brings an item's access count above the
\* consolidation threshold, and every later one, raises the item's
\* importance by 0.1 up to 1.0; the earlier recalls leave it unchanged.
RecallNudgesImportance ==
    [][ RecallStep =>
          \A key \in ReturnedKeys :
              LTGet(longTerm', key).importance =
                  IF accessCount'[key] > consolidationThreshold
                  THEN Min(LTGet(longTerm, key).importance + 100, 1000)
                  ELSE LTGet(longTerm, key).importance ]_vars

\* C8: with long-term capacity 3, after D (0.9), E (0.1), F (0.5) and then
\* G (0.8) are added, at any non-decreasing timestamps, the entry evicted
\* is E and the store holds exactly D, F and G.
EvictsLeastImportant ==
    (call.op = "addToLongTerm" /\ EvictDone = 4) =>
        LTKeys(longTerm) = { UserKey(1), UserKey(3), UserKey(4) }

\* A step of applyDecay (time passes between the calls, not during one).
DecayStep == call'.op = "applyDecay" /\ now' = now

\* C11: a call of applyDecay raises the importance of no long-term item
\* (every item that is still there is at most as important as before).
DecayNeverRaises ==
    [][ DecayStep =>
          \A i \in 1..Len(longTerm'), j \in 1..Len(longTerm) :
              longTerm'[i].key = longTerm[j].key =>
                  longTerm'[i].importance <= longTerm[j].importance ]_vars

\* C11 witness: applyDecay has lowered an item below the importance it
\* was inserted with (which the weight index still holds).
DecayWitness ==
    /\ call.op = "applyDecay"
    /\ \E i \in 1..Len(longTerm) :
           /\ longTerm[i].importance > 0
           /\ longTerm[i].importance < memoryWeights[longTerm[i].key]

\* The item is past the horizon of applyDecay at the time of the call.
PastHorizon(item) == now - item.lastAccess > DecayThreshold
\* The key is in none of the four Maps after the step.
GoneAfter(key) ==
    /\ key \notin LTKeys(longTerm')
    /\ key \notin DOMAIN memoryWeights'
    /\ key \notin DOMAIN accessCount'
    /\ key \notin DOMAIN lastAccess'

\* C12: applyDecay removes an item, with its entries in the three metadata
\* maps, exactly when the item is past the 24-hour horizon, its decayed
\* importance is below 0.1 and it is not consolidated; a consolidated item
\* stays, and an item within the horizon stays as it is.
PurgeRule ==
    [][ DecayStep =>
          \A j \in 1..Len(longTerm) :
              LET item == longTerm[j]
                  decayed == (item.importance
                                * DecayFactor(decayRate, now - item.lastAccess))
                                 \div 1000
              IN  /\ item.key \notin LTKeys(longTerm') <=>
                         /\ PastHorizon(item)
                         /\ decayed < 100
                         /\ ~item.consolidated
                  /\ item.key \notin LTKeys(longTerm') => GoneAfter(item.key)
                  /\ item.key \in LTKeys(longTerm') =>
                         /\ memoryWeights'[item.key] = memoryWeights[item.key]
                         /\ LTGet(longTerm', item.key) =
                                IF PastHorizon(item)
                                THEN [ item EXCEPT !.importance = decayed ]
                                ELSE item ]_vars

\* C12 witness: after an applyDecay the store holds a consolidated entry
\* below 0.1 and an entry that is within the horizon and undecayed, and
\* nothing else.
PurgeWitness ==
    /\ call.op = "applyDecay"
    /\ now > DecayThreshold
    /\ Len(longTerm) = 2
    /\ \E i, j \in 1..Len(longTerm) :
           /\ longTerm[i].consolidated
           /\ longTerm[i].importance < 100
           /\ ~longTerm[j].consolidated
           /\ now - longTerm[j].lastAccess <= DecayThreshold
           /\ longTerm[j].importance = memoryWeights[longTerm[j].key]

\* C13: the short-term buffer is first in, first out.  After n calls of
\* addToShortTerm it holds the last min(n, capacity) items in the order in
\* which they were added (ids are numbered in that order); a call appends
\* its item and, on overflow, removes the oldest one; and an item removed
\* with importance <= 0.7 is in no other tier: every promoted long-term
\* entry comes from a removed item of importance > 0.7, and the episodic
\* log holds nothing.
FifoBuffer ==
    /\ [](/\ Len(shortTerm) = Min(nextId - 1, shortTermCapacity)
          /\ \A i \in 1..Len(shortTerm) :
                 shortTerm[i].id = << "id", nextId - 1 - Len(shortTerm) + i >>
          /\ \A i \in 1..Len(longTerm) :
                 /\ longTerm[i].key[1] = "consolidated"
                 /\ longTerm[i].key[2] < nextId - Len(shortTerm)
                 /\ longTerm[i].importance > 700
          /\ episodic = << >>)
    /\ [][ call'.op = "addToShortTerm" =>
             LET added == shortTerm'[Len(shortTerm')]
             IN  /\ added.content = call'.args[1]
                 /\ added.id = << "id", nextId >>
                 /\ IF Len(shortTerm) < shortTermCapacity
                    THEN /\ shortTerm' = Append(shortTerm, added)
                         /\ UNCHANGED << storeVars, episodic >>
                    ELSE /\ shortTerm' = Append(Tail(shortTerm), added)
                         /\ Head(shortTerm).importance <= 700 =>
                                UNCHANGED << storeVars, episodic >>
                         /\ Head(shortTerm).importance > 700 =>
                                ConsolidatedKey(Head(shortTerm).id)
                                    \in LTKeys(longTerm') ]_vars

\* C13 witness: capacity 2 and three adds, of importance 0.5, 0.8 and 0.5:
\* the buffer holds the second and the third, and the first is nowhere.
FifoWitness ==
    /\ call.op = "addToShortTerm"
    /\ shortTermCapacity = 2
    /\ nextId = 4
    /\ Len(shortTerm) = 2
    /\ shortTerm[1].id = << "id", 2 >>
    /\ shortTerm[1].importance = 800
    /\ shortTerm[2].id = << "id", 3 >>
    /\ shortTerm[2].importance = 500
    /\ longTerm = << >>

\* C14: load leaves every tier, metadata map and config value whose field
\* is missing from the snapshot at its value before the load.
LoadKeepsMissing ==
    [][ call'.op = "load" =>
          LET data == call'.args[1]
              config == OrElse(data.config, NoConfig @@
                            [ decayRate |-> {},
                              consolidationThreshold |-> {} ])
          IN  /\ data.shortTerm = {} => UNCHANGED shortTerm
              /\ data.longTerm = {} => UNCHANGED longTerm
              /\ data.episodic = {} => UNCHANGED episodic
              /\ data.memoryWeights = {} => UNCHANGED memoryWeights
              /\ data.accessCount = {} => UNCHANGED accessCount
              /\ data.lastAccess = {} => UNCHANGED lastAccess
              /\ config.shortTermCapacity = {} => UNCHANGED shortTermCapacity
              /\ config.longTermCapacity = {} => UNCHANGED longTermCapacity
              /\ config.episodicCapacity = {} => UNCHANGED episodicCapacity
              /\ config.decayRate = {} => UNCHANGED decayRate
              /\ config.consolidationThreshold = {} =>
                     UNCHANGED consolidationThreshold ]_vars

\* C15: a new Memory that loads the snapshot that save() has just returned
\* has the tiers, the metadata maps and the config of the memory that was
\* saved.
RoundTrip ==
    [][ call'.op = "new.load" =>
          UNCHANGED << shortTerm, longTerm, episodic, memoryWeights,
                       accessCount, lastAccess, shortTermCapacity,
                       longTermCapacity, episodicCapacity, decayRate,
                       consolidationThreshold >> ]_vars

\* C15 witness: a new memory has loaded a snapshot with items in the three
\* tiers, access counts, capacities and a decay rate that are not the
\* defaults.
RoundTripWitness ==
    /\ call.op = "new.load"
    /\ shortTerm # << >> /\ longTerm # << >> /\ episodic # << >>
    /\ DOMAIN accessCount # {}
    /\ shortTermCapacity = 1
    /\ decayRate = 200

--------------------------------------------------------------------------
(* Claims about ReasoningEngine                                            *)

\* The rule_application steps of the chain in results, and the maxDepth of
\* the call that filled it.
RuleStepIndexes ==
    { i \in 1..Len(results.steps) :
        results.steps[i].type = "rule_application" }
CallMaxDepth == call.args[2]
\* The recursion path of the step i: the step, and before it the calls
\* that led to it, one at each smaller depth.
PathOf(i) ==
    { i } \cup
    { j \in RuleStepIndexes :
        /\ j < i
        /\ results.steps[j].depth < results.steps[i].depth
        /\ \A k \in RuleStepIndexes :
               (j < k /\ k < i) =>
                   results.steps[k].depth > results.steps[j].depth }
\* n + n^2 + .. + n^d
RECURSIVE GeometricSum(_, _)
GeometricSum(n, d) == IF d = 0 THEN 0 ELSE n * (1 + GeometricSum(n, d - 1))

\* C3: whatever the rules and the query, applyRules(query, trace, 0, D)
\* ends; every rule_application step has a depth below D; along one
\* recursion path a rule fires at most D times; the steps are at most
\* R + R^2 + .. + R^D for R rules.
ChainingIsBounded ==
    (call.op \in { "reason", "applyRules" } /\ err = "none") =>
        /\ \A i \in RuleStepIndexes :
               /\ results.steps[i].depth >= 0
               /\ results.steps[i].depth < CallMaxDepth
               /\ Cardinality(PathOf(i)) = results.steps[i].depth + 1
               /\ \A k \in 1..Len(rules) :
                      Cardinality({ j \in PathOf(i) :
                                      results.steps[j].rule = rules[k].name })
                          <= CallMaxDepth
        /\ Cardinality(RuleStepIndexes)
               <= GeometricSum(Len(rules), CallMaxDepth)

\* C3, its case: applyRules was called with D = MaxDepth, two rules whose
\* conclusion matches their own pattern fired at every depth, and one of
\* them fired D times along one path.
ChainingWitness ==
    /\ call.op = "applyRules"
    /\ CallMaxDepth = MaxDepth
    /\ \A d \in 0..(MaxDepth - 1) :
           \A name \in { "echo", "negate" } :
               \E i \in RuleStepIndexes :
                   /\ results.steps[i].depth = d
                   /\ results.steps[i].rule = name
    /\ \E i \in RuleStepIndexes :
           Cardinality({ j \in PathOf(i) : results.steps[j].rule = "echo" })
               = MaxDepth

\* reason() returned a chain.
Reasoned == call.op = "reason" /\ err = "none"
\* The greatest element of a set of numbers.
SetMax(S) == CHOOSE m \in S : \A x \in S : x <= m
\* The conclusion that the step i stands for.
Concluded(i) ==
    IF results.steps[i].type = "analogical_reasoning"
    THEN Str(Text.Based_on_analogy \o results.steps[i].content.s)
    ELSE results.steps[i].content
\* A memory_recall step concludes only when it found the chain empty.
Eligible(i) == results.steps[i].type = "memory_recall" => i = 1
\* The step i added its conclusion to the chain.
Adds(i) ==
    /\ Eligible(i)
    /\ CASE results.steps[i].type \in { "direct_fact", "memory_recall" } ->
                TRUE
         [] results.steps[i].type = "analogical_reasoning" ->
                ~\E j \in 1..(i - 1) :
                     /\ Eligible(j)
                     /\ IsString(Concluded(j))
                     /\ Includes(Concluded(j).s, results.steps[i].content.s)
         [] OTHER ->
                ~\E j \in 1..(i - 1) :
                     Eligible(j) /\ Concluded(j) = results.steps[i].content
\* What the step i gives to the confidence of the chain when it adds.
Contribution(i) ==
    CASE results.steps[i].type = "memory_recall" ->
             (results.steps[i].relevance * results.steps[i].confidence)
                 \div 1000
      [] results.steps[i].type = "analogical_reasoning" ->
             (results.steps[i].confidence * 7) \div 10
      [] OTHER -> results.steps[i].confidence
StepConfidences ==
    { results.steps[i].confidence : i \in 1..Len(results.steps) }

\* C4, as stated: trace.confidence is the maximum of the confidences
\* recorded in trace.steps, and 0 when there is no step.
ConfidenceIsStepMaximum ==
    Reasoned =>
        results.confidence =
            IF results.steps = << >> THEN 0 ELSE SetMax(StepConfidences)

\* C4, as the code has it: trace.confidence is 0 when no step added a
\* conclusion, else the maximum of what the steps that added one
\* contributed (relevance * importance for the recalled memory, 0.7 of its
\* confidence for an analogy, its confidence for the others); it is never
\* above the maximum of the step confidences.
ConfidenceIsContributionMaximum ==
    Reasoned =>
        /\ results.confidence =
               IF \A i \in 1..Len(results.steps) : ~Adds(i) THEN 0
               ELSE SetMax({ Contribution(i) :
                               i \in { j \in 1..Len(results.steps) :
                                         Adds(j) } })
        /\ results.steps # << >> =>
               results.confidence <= SetMax(StepConfidences)
        /\ Len(results.conclusions)
               = Cardinality({ i \in 1..Len(results.steps) : Adds(i) })

\* C4, its case: a chain with a fact, a recalled memory that the chain
\* does not take, and a rule step that is more confident than the chain
\* because its conclusion was there already.
ConfidenceWitness ==
    /\ Reasoned
    /\ \E i, j, k \in 1..Len(results.steps) :
           /\ results.steps[i].type = "direct_fact"
           /\ results.steps[j].type = "memory_recall"
           /\ results.steps[k].type = "rule_application"
           /\ ~Adds(k)
           /\ results.steps[k].confidence > results.confidence
    /\ \E i \in 1..Len(results.steps) :
           results.steps[i].type = "rule_application" /\ Adds(i)

\* C16: no rule with a malformed pattern makes applyRules or reason raise
\* the SyntaxError of its regular expression.
MalformedRuleNeverRaises ==
    call.op \in { "reason", "applyRules" } => err # "SyntaxError"

\* C17: applyRules on "if rain then wet" applies modus_ponens first, and
\* the step concludes "wet", all that follows "then ", with confidence 0.9.
SubstitutesFullCapture ==
    (/\ call.op = "applyRules"
     /\ call.args[1] = Str(Input.if_rain_then_wet)
     /\ call.args[2] >= 1
     /\ err = "none") =>
        /\ results.steps[1].rule = "modus_ponens"
        /\ results.steps[1].content = Str(Input.wet)
        /\ results.steps[1].confidence = 900

\* The pattern_matching steps of the returned chain, the patterns that
\* match its query, and what the k-th handler answers when its recall
\* finds nothing.
PatternSteps ==
    { i \in 1..Len(results.steps) :
        results.steps[i].type = "pattern_matching" }
MatchingPatterns ==
    { k \in 1..4 : PrefixMatches(results.query.s, PatternPrefix[k]) }
FixedAnswer(k, captured) ==
    CASE k = 1 -> Text.need_more_information \o captured
      [] k = 2 -> Text.To \o captured \o Text.break_it_down
      [] k = 3 -> Text.The_reason_for \o captured \o Text.cause_and_effect
      [] OTHER -> Text.no_timing_information \o captured

\* C19: the chain that reason() returns has a pattern_matching step when
\* one of the four patterns matches the query and none when none does; the
\* step is the only one and is that of the first pattern of the list that
\* matches; when the memory holds nothing for what the handler recalls,
\* the step carries the handler's fixed answer and a confidence in
\* [0.2, 0.4].
FirstHandlerOnly ==
    Reasoned =>
        /\ Cardinality(PatternSteps) <= 1
        /\ PatternSteps # {} <=> MatchingPatterns # {}
        /\ \A i \in PatternSteps :
               LET k == CHOOSE a \in MatchingPatterns :
                            \A b \in MatchingPatterns : a <= b
                   captured == MatchOne(results.query.s, PatternPrefix[k])
               IN  /\ results.steps[i].pattern = PatternSource[k]
                   /\ RecallResults(shortTerm, longTerm, episodic,
                                    Str(HandlerQuery(k, captured)), "all")
                          = << >> =>
                          /\ results.steps[i].content =
                                 Str(FixedAnswer(k, captured))
                          /\ results.steps[i].confidence \in 200..400

\* C19 witness: the query "when how to ai" matches the second and the
\* fourth pattern, the memory is empty, and the only pattern_matching step
\* is the fixed answer of how-to, with confidence 0.4.
FirstHandlerWitness ==
    /\ Reasoned
    /\ results.query = Str(Input.when_how_to_ai)
    /\ longTerm = << >> /\ episodic = << >>
    /\ \E i \in PatternSteps :
           /\ results.steps[i].pattern = "how to (.+)"
           /\ results.steps[i].content =
                  Str(Text.To \o Input.ai \o Text.break_it_down)
           /\ results.steps[i].confidence = 400

\* The memory_recall steps of the returned chain.
RecallSteps ==
    { i \in 1..Len(results.steps) : results.steps[i].type = "memory_recall" }
\* What the steps after the i-th gave to the chain's confidence.
LaterContributions(i) ==
    { Contribution(j) : j \in { l \in (i + 1)..Len(results.steps) : Adds(l) } }

\* C20: the recalled memory is the chain's first conclusion, and
\* relevance * importance its confidence until a later step raises it,
\* when no fact was found; when a fact was found, the fact is the first
\* conclusion, the recall step adds none, and the confidence is the
\* fact's until a later step raises it.
RecallConcludesOnlyFirst ==
    Reasoned =>
        \A i \in RecallSteps :
            LET hit == results.steps[i]
            IN  /\ RecallSteps = { i }
                /\ i = 1 \/ (i = 2 /\ results.steps[1].type = "direct_fact")
                /\ results.conclusions[1] = results.steps[1].content
                /\ Len(results.conclusions) =
                       1 + Cardinality({ j \in (i + 1)..Len(results.steps) :
                                           Adds(j) })
                /\ results.confidence =
                       SetMax(LaterContributions(i) \cup
                           { IF i = 1
                             THEN (hit.relevance * hit.confidence) \div 1000
                             ELSE results.steps[1].confidence })

\* C20 witness: a fact and a memory were found, a later rule step added a
\* conclusion, and the recalled content is no conclusion.
RecallConcludesWitness ==
    /\ Reasoned
    /\ Len(results.steps) >= 3
    /\ results.steps[1].type = "direct_fact"
    /\ results.steps[2].type = "memory_recall"
    /\ Len(results.conclusions) >= 2
    /\ \A k \in 1..Len(results.conclusions) :
           results.conclusions[k] # results.steps[2].content

\* C18: addFact leaves the fact set as it is when a fact with the same
\* content, confidence, timestamp and source is in it, and else adds the
\* new fact at the end: the same content at another time or with another
\* confidence is another fact.
FactsAreStructural ==
    [][ (call'.op = "addFact" /\ now' = now) =>
          LET same == { k \in 1..Len(facts) :
                          /\ facts[k].content = call'.args[1]
                          /\ facts[k].confidence = call'.args[2]
                          /\ facts[k].timestamp = now
                          /\ facts[k].source = "user_input" }
          IN  IF same # {} THEN facts' = facts
              ELSE /\ Len(facts') = Len(facts) + 1
                   /\ SubSeq(facts', 1, Len(facts)) = facts
                   /\ facts'[Len(facts')].content = call'.args[1]
                   /\ facts'[Len(facts')].confidence = call'.args[2]
                   /\ facts'[Len(facts')].timestamp = now ]_vars

\* C18 witness: the set holds the same content with the same confidence at
\* two times, and with another confidence at one of them.
FactsWitness ==
    /\ call.op = "addFact"
    /\ \E k, l, m \in 1..Len(facts) :
           /\ facts[k].content = facts[l].content
           /\ facts[k].confidence = facts[l].confidence
           /\ facts[k].timestamp # facts[l].timestamp
           /\ facts[m].content = facts[k].content
           /\ facts[m].timestamp = facts[k].timestamp
           /\ facts[m].confidence # facts[k].confidence

--------------------------------------------------------------------------
(* Claims about ReasoningEngine: analogies, history, conclusions, order    *)

\* The engine holds no rule whose pattern is no regular expression.
WellFormedRules == \A k \in 1..Len(rules) : rules[k].name # "malformed"

\* C21: when the episodic tier holds an event whose relevance to the query
\* is above 0.5 and that shares a token of more than three characters with
\* it, reason(query) returns a chain that has an analogical_reasoning step
\* with the analogy "Similar to: <event>".
AnalogyFromEpisode ==
    \A e \in 1..Len(episodic) :
        (/\ call.op = "reason"
         /\ IsString(call.args[1])
         /\ WellFormedRules
         /\ IsString(episodic[e].event)
         /\ CalculateRelevance(call.args[1], episodic[e].event) > 500
         /\ FindAnalogy(call.args[1].s, episodic[e].event.s).ok)
        => /\ err = "none"
           /\ \E i \in 1..Len(results.steps) :
                  /\ results.steps[i].type = "analogical_reasoning"
                  /\ results.steps[i].content
                         = Str(Text.Similar_to \o episodic[e].event.s)


\* reason() or applyRules() filled a chain and returned.
Filled == call.op \in { "reason", "applyRules" } /\ err = "none"

\* C23: the conclusions of a chain are distinct, whichever steps gave them.
\* (A step only ever appends to the conclusions, so that what holds of the
\* chain that is returned holds of the chain at every point of the call.)
ConclusionsAreDistinct ==
    Filled =>
        \A i, j \in 1..Len(results.conclusions) :
            i # j => results.conclusions[i] # results.conclusions[j]

\* C23, its case: a fact, a rule and a pattern handler each gave a
\* conclusion, and a rule step found its conclusion there already.
DistinctWitness ==
    /\ Reasoned
    /\ \E i, j, k, d \in 1..Len(results.steps) :
           /\ results.steps[i].type = "direct_fact" /\ Adds(i)
           /\ results.steps[j].type = "rule_application" /\ Adds(j)
           /\ results.steps[k].type = "pattern_matching" /\ Adds(k)
           /\ results.steps[d].type = "rule_application" /\ ~Adds(d)

\* The phase of reason() that pushes steps of the given type.
Phase(type) ==
    CASE type = "direct_fact" -> 1
      [] type = "memory_recall" -> 2
      [] type = "rule_application" -> 3
      [] type = "pattern_matching" -> 4
      [] type = "analogical_reasoning" -> 5
StepsOfType(type) ==
    { i \in 1..Len(results.steps) : results.steps[i].type = type }

\* C27: the steps of a chain that reason() returns are in the order of the
\* five phases, with at most one direct_fact and one memory_recall step.
PhasesInOrder ==
    Reasoned =>
        /\ \A i, j \in 1..Len(results.steps) :
               i < j => Phase(results.steps[i].type)
                            <= Phase(results.steps[j].type)
        /\ Cardinality(StepsOfType("direct_fact")) <= 1
        /\ Cardinality(StepsOfType("memory_recall")) <= 1

\* C27, its case: a chain with steps of the first four phases, several of
\* them rule applications.
PhasesWitness ==
    /\ Reasoned
    /\ StepsOfType("direct_fact") # {}
    /\ StepsOfType("memory_recall") # {}
    /\ Cardinality(StepsOfType("rule_application")) >= 2
    /\ StepsOfType("pattern_matching") # {}


\* A step of reason() (no time passes in it).
ReasonStep == call'.op = "reason" /\ now' = now
\* The last n elements of a sequence.
LastOf(s, n) == SubSeq(s, Max(1, Len(s) - n + 1), Len(s))

--------------------------------------------------------------------------
(* Claims about Memory: the score, load and the long-term capacity         *)

\* What a search result was scored on: the content, or the event of an
\* episode.
Scored(r) == IF r.type = "episodic" THEN r.event ELSE r.content

\* C24: the relevance score is within [0, 1]; it is 0 when the query or
\* the content is not a string and 0 for the empty query, so that recall
\* returns nothing then (a result has a score above 0.1).
ScoreAsSpecified ==
    call.op = "recall" =>
        /\ \A i \in 1..Len(results) :
               /\ results[i].relevance \in 0..1000
               /\ results[i].relevance
                      = CalculateRelevance(call.args[1], Scored(results[i]))
               /\ IsString(Scored(results[i]))
        /\ ~IsString(call.args[1]) => results = << >>
        /\ call.args[1] = Str(<< >>) => results = << >>

\* C26: after addToLongTerm(key, value, importance) the store holds the
\* key with that content and importance, and the weight index holds the
\* key with that importance, whether or not the store was full.
AddedIsKept ==
    call.op = "addToLongTerm" =>
        /\ call.args[1] \in LTKeys(longTerm)
        /\ LTGet(longTerm, call.args[1]).content = call.args[2]
        /\ LTGet(longTerm, call.args[1]).importance = call.args[3]
        /\ MapHas(memoryWeights, call.args[1])
        /\ memoryWeights[call.args[1]] = call.args[3]


\* C25: the short-term buffer is never longer than the capacity in force,
\* after load and after the addToShortTerm calls that follow it as after
\* every other operation.
ShortTermWithinCapacity == Len(shortTerm) <= shortTermCapacity


--------------------------------------------------------------------------
(* Claims about AIAgent and ChatInterface                                  *)

\* The trainNetwork calls that stand at their await.
TrainingRuns ==
    { k \in 1..Len(pc) :
        pc[k].fn = "trainNetwork" /\ pc[k].at = "awaiting" }
\* A step in which trainNetwork is called.
TrainNetworkStep ==
    Len(pc') = Len(pc) + 1 /\ pc'[Len(pc')].fn = "trainNetwork"
\* A step in which the k-th call, a trainNetwork that was not skipped,
\* returns.
TrainNetworkReturns(k) ==
    /\ pc'[k].fn = "trainNetwork"
    /\ pc'[k].at = "returned"
    /\ pc'[k].out # "skipped"
    /\ k <= Len(pc) => pc[k].at = "awaiting"

\* C29: at most one trainNetwork run is in progress at a time, and
\* isTraining is true exactly while one is; a call made while isTraining is
\* true returns at once without calling brain.train and changes nothing;
\* isTraining is false when a run that started returns, whether it
\* completed, had no data, or train or evaluate threw.
OneTrainingAtATime ==
    /\ [](/\ Cardinality(TrainingRuns) <= 1
          /\ isTraining <=> TrainingRuns # {})
    /\ [][TrainNetworkStep /\ isTraining =>
              /\ pc'[Len(pc')].at = "returned"
              /\ pc'[Len(pc')].out = "skipped"
              /\ ~pc'[Len(pc')].locals.trained
              /\ UNCHANGED << coreVars, isLearning, isTraining,
                              conversationHistory >>]_vars
    /\ [][\A k \in 1..Len(pc') : TrainNetworkReturns(k) => ~isTraining']_vars

\* C29 witness: a run has completed after its await, and a call made
\* during it was skipped.
TrainingWitness ==
    /\ Len(pc) = 2
    /\ pc[1].fn = "trainNetwork" /\ pc[1].out = "completed"
    /\ pc[2].fn = "trainNetwork" /\ pc[2].out = "skipped"
    /\ ~isTraining


\* The processMessage calls that have returned after their preprocessing,
\* reasoning and response generation succeeded.
Generated ==
    { k \in 1..Len(pc) :
        /\ pc[k].fn = "processMessage"
        /\ pc[k].at = "returned"
        /\ "response" \in DOMAIN pc[k].locals }

\* C30: a processMessage call whose preprocessing, reasoning and response
\* generation succeeded has returned the generated response and not the
\* error fallback, the conversation history has one entry for each such
\* call, and the episodic memory has one episode for each such call that
\* found learning enabled.
GeneratedIsAnswered ==
    /\ \A k \in Generated : pc[k].out = Answer(pc[k].locals.response)
    /\ Len(conversationHistory) = Cardinality(Generated)
    /\ Len(episodic) = Cardinality({ k \in Generated :
                                       pc[k].locals.learning })


\* The processMessage calls that have not returned, and the sendMessage
\* calls that stand at their await.
InFlight ==
    { k \in 1..Len(pc) :
        pc[k].fn = "processMessage" /\ pc[k].at # "returned" }
Sending ==
    { k \in 1..Len(pc) : pc[k].fn = "sendMessage" /\ pc[k].at = "awaiting" }

\* C28: at most one processMessage call is in flight, each one for a
\* sendMessage that stands at its await, and isTyping is true only while a
\* sendMessage stands at its await, which resets it when it goes on: no
\* state has isTyping true with nothing left to reset it.
TypingIsReleased ==
    /\ Cardinality(InFlight) <= 1
    /\ \A k \in InFlight : k - 1 \in Sending
    /\ isTyping <=> Sending # {}

==========================================================================
